---------------------------- MODULE Spec2Model ----------------------------
(***************************************************************************)
(* Peer-Tutor Connect backend: the question / response / notification      *)
(* stores (backend/data/*.js) and the Express handlers that orchestrate    *)
(* them (backend/routes/*.js).                                             *)
(*                                                                         *)
(* A handler is one action of the sequential specification Spec; the       *)
(* specification SpecCascade splits the question-delete handler at its     *)
(* awaits, so that other requests interleave with the cascade.             *)
(***************************************************************************)
EXTENDS Integers, Sequences, FiniteSets, TLC

VARIABLES
  questions,      \* questions collection: _id -> document
  responses,      \* responses collection: _id -> document
  notifications,  \* notifications collection: _id -> document
  ids,            \* next fresh ObjectId of each collection
  now,            \* the wall clock read by new Date()
  last,           \* the reply to the latest request
  cascade,        \* the in-flight DELETE /api/questions/:questionId request
  served,         \* the number of requests under study served so far
  students,       \* students collection: the documents in insertion order
  signup,         \* the in-flight createStudent calls: call -> [pc, data]
  sessions,       \* the session store: [issued, store: sid -> req.session]
  pending         \* the in-flight update and delete requests, split at their awaits

vars ==
  <<questions, responses, notifications, ids, now, last, cascade, served, students, signup, sessions, pending,
    sessions, pending>>

store == <<questions, responses, notifications>>

---------------------------------------------------------------------------
(* Bounds of the model *)

MaxQuestions == 2
MaxResponses == 2
MaxNotifications == 3
MaxTime == 1
MaxRequests == 1
MaxListed == 3
MaxInboxRequests == 3
MaxSignups == 3

\* requests in flight at once, and questions they find stored
MaxPending == 2

MaxPendingQuestions == 1

\* attempts of the question-delete handler that end in a database error
MaxFailures == 1

\* requests served in a row on the questions of a populated store
MaxResolveRequests == 2

\* sessions issued, and requests served, in the login specification
MaxSessions == 2

MaxSessionRequests == 4

\* the window of the recent-question count, in hours
RecentWindow == 24

\* createStudent: the bounds of firstName and of age
MaxNameLen == 50
MinAge == 17
MaxAge == 25

(* Program constants *)

MaxTitleLen == 200
MaxQuestionContentLen == 2000
MaxResponseContentLen == 1500
MaxStringLen == 1000

\* the ids of the registered students
Students == {1, 2}

\* the ids of the seeded courses
Courses == {1, 2}

\* courses.enrolledStudents: the students enrolled in each course
EnrolledStudents == <<{1, 2}, {1}>>

\* A string that is no ObjectId
MalformedId == 0

\* The well-formed ids a request names: those handed out so far, and one that
\* no document ever has
UnknownQuestion == MaxQuestions + 1
UnknownResponse == MaxResponses + 1
UnknownNotification == MaxNotifications + 1

QuestionIds == {i \in 1..MaxQuestions : i < ids.q} \cup {UnknownQuestion}
ResponseIds == {i \in 1..MaxResponses : i < ids.r} \cup {UnknownResponse}
NotificationIds == {i \in 1..MaxNotifications : i < ids.n} \cup {UnknownNotification}

---------------------------------------------------------------------------
(* JavaScript values of a request body *)

Str(s) == [t |-> "string", s |-> s]
Bool(b) == [t |-> "boolean", b |-> b]
Id(i) == [t |-> "id", i |-> i]
Undefined == [t |-> "undefined"]

\* a string of n characters
Long(n) == [i \in 1..n |-> "x"]

RECURSIVE TrimStart(_)
TrimStart(s) ==
  IF s # <<>> /\ Head(s) = " " THEN TrimStart(Tail(s)) ELSE s

RECURSIVE TrimEnd(_)
TrimEnd(s) ==
  IF s # <<>> /\ s[Len(s)] = " " THEN TrimEnd(SubSeq(s, 1, Len(s) - 1)) ELSE s

\* String.prototype.trim
Trim(s) == TrimEnd(TrimStart(s))

isValidObjectId(id) == id # MalformedId

\* the ids of S and a malformed one
Given(S) == S \cup {MalformedId}

\* validateString: [err, value]
validateString(value, fieldName, minLength, maxLength) ==
  IF value.t = "undefined" THEN [err |-> fieldName \o " is required", value |-> <<>>]
  ELSE IF value.t # "string" THEN [err |-> fieldName \o " must be a string", value |-> <<>>]
  ELSE IF Len(Trim(value.s)) < minLength
    THEN [err |-> fieldName \o " must be at least " \o ToString(minLength) \o " character(s)",
          value |-> <<>>]
  ELSE IF Len(Trim(value.s)) > maxLength
    THEN [err |-> fieldName \o " must not exceed " \o ToString(maxLength) \o " characters",
          value |-> <<>>]
  ELSE [err |-> "", value |-> Trim(value.s)]

\* express-validator isBoolean(): the value as a string is one of true, false, 1, 0
IsBooleanLike(v) ==
  \/ v.t = "boolean"
  \/ v.t = "string" /\ v.s \in {<<"t","r","u","e">>, <<"f","a","l","s","e">>, <<"1">>, <<"0">>}

\* the value of a key of a request body (a sequence of key/value pairs)
Get(body, key) ==
  IF \E i \in 1..Len(body) : body[i].k = key
    THEN body[CHOOSE i \in 1..Len(body) : body[i].k = key].v
    ELSE Undefined

Keys(body) == {body[i].k : i \in 1..Len(body)}

\* a ".trim()" sanitizer of a route: the field of the body is replaced by its trimmed value
Sanitize(body, key) ==
  [i \in 1..Len(body) |->
     IF body[i].k = key /\ body[i].v.t = "string"
       THEN [k |-> key, v |-> Str(Trim(body[i].v.s))]
       ELSE body[i]]

\* body(field).optional().trim().isLength({min: 1, max})
OptionalLengthOk(body, key, max) ==
  LET v == Get(body, key) IN
    \/ v.t = "undefined"
    \/ v.t = "string" /\ Len(Trim(v.s)) >= 1 /\ Len(Trim(v.s)) <= max

\* body(field).trim().notEmpty().isLength({max})
RequiredLengthOk(v, max) ==
  v.t = "string" /\ Len(Trim(v.s)) >= 1 /\ Len(Trim(v.s)) <= max

\* body(field).optional().isBoolean()
OptionalBooleanOk(v) == v.t = "undefined" \/ IsBooleanLike(v)

---------------------------------------------------------------------------
(* Replies *)

\* op, actor, id: the request; status, error: its reply; logged: what the handler
\* wrote with console.error
\* body: the data of the reply to a GET
NoReply ==
  [op |-> "none", actor |-> 0, id |-> 0, status |-> 0, error |-> "", logged |-> "",
   body |-> <<>>]

Reply(op, actor, id, status, error) ==
  [op |-> op, actor |-> actor, id |-> id, status |-> status, error |-> error, logged |-> "",
   body |-> <<>>]

\* the ownership test of a handler: doc.posterId.toString() === currentUserId
IsPosterAlways(doc, currentUserId) == TRUE

IsPoster(doc, currentUserId) == doc.posterId = currentUserId

\* POST /api/responses notifies the asker: question.posterId.toString() !== posterId
NotifiesAskerAlways(question, posterId) == TRUE

NotifiesAsker(question, posterId) == question.posterId # posterId

\* PATCH .../helpful notifies the responder:
\* isHelpful && response.posterId.toString() !== currentUserId
NotifiesResponderAlways(isHelpful, response, currentUserId) == isHelpful

NotifiesResponder(isHelpful, response, currentUserId) ==
  isHelpful /\ response.posterId # currentUserId

\* the catch block around the notification: the error is logged and the reply stays
CaughtRethrown(op, actor, id, status, thrown) ==
  IF thrown
    THEN [Reply(op, actor, id, 500, "notification") EXCEPT
            !.logged = "Failed to create notification"]
    ELSE Reply(op, actor, id, status, "")

Caught(op, actor, id, status, thrown) ==
  [Reply(op, actor, id, status, "") EXCEPT
     !.logged = IF thrown THEN "Failed to create notification" ELSE ""]

\* students.firstName of the seeded students
FirstName(student) == <<"Ann", "Bob">>[student]

\* students.lastName of the seeded students
LastName(student) == <<"Lee", "Roy">>[student]

\* the $lookup / $addFields / $project stages of the read pipelines: the stored
\* document with its _id and the derived posterName
PosterName(doc) ==
  IF doc.isAnonymous THEN "Anonymous" ELSE FirstName(doc.posterId) \o " " \o LastName(doc.posterId)

Populated(id, doc) ==
  [f \in DOMAIN doc \cup {"_id", "posterName"} |->
     IF f = "_id" THEN id ELSE IF f = "posterName" THEN PosterName(doc) ELSE doc[f]]

\* { $sort: { createdAt: dir } } over the documents of coll named in docs: the orders the
\* stage can yield (documents with equal createdAt come in any order)
Orderings(docs) ==
  {f \in [1..Cardinality(docs) -> docs] :
     \A i, j \in 1..Cardinality(docs) : i # j => f[i] # f[j]}

\* a $sort that takes every sort stage for {createdAt: -1}
SortedDescending(coll, docs, dir) ==
  {f \in Orderings(docs) :
     \A i, j \in 1..Cardinality(docs) :
       i < j => coll[f[i]].createdAt >= coll[f[j]].createdAt}

Sorted(coll, docs, dir) ==
  {f \in Orderings(docs) :
     \A i, j \in 1..Cardinality(docs) :
       i < j => IF dir = 1 THEN coll[f[i]].createdAt <= coll[f[j]].createdAt
                ELSE coll[f[i]].createdAt >= coll[f[j]].createdAt}

---------------------------------------------------------------------------
(* Question data functions: each yields [err, questions] *)

createQuestion(qs, id, data, t) ==
  LET title == validateString(data.title, "Title", 1, MaxTitleLen)
      content == validateString(data.content, "Content", 1, MaxQuestionContentLen)
      isAnonymous == IF data.isAnonymous.t # "undefined" THEN data.isAnonymous ELSE Bool(FALSE)
  IN
    IF ~isValidObjectId(data.courseId) THEN [err |-> "Invalid course ID", questions |-> qs]
    ELSE IF ~isValidObjectId(data.posterId) THEN [err |-> "Invalid poster ID", questions |-> qs]
    ELSE IF title.err # "" THEN [err |-> title.err, questions |-> qs]
    ELSE IF content.err # "" THEN [err |-> content.err, questions |-> qs]
    ELSE IF isAnonymous.t # "boolean"
      THEN [err |-> "isAnonymous must be a boolean", questions |-> qs]
    ELSE [err |-> "",
          questions |-> [q \in DOMAIN qs \cup {id} |->
             IF q = id
               THEN [courseId |-> data.courseId, posterId |-> data.posterId,
                     title |-> title.value, content |-> content.value,
                     isAnonymous |-> isAnonymous.b, isResolved |-> FALSE,
                     createdAt |-> t, updatedAt |-> t]
               ELSE qs[q]]]

\* the JavaScript value carried by a body value
Raw(v) ==
  CASE v.t = "string" -> v.s
    [] v.t = "boolean" -> v.b
    [] v.t = "id" -> v.i
    [] OTHER -> 0

\* an update that sets only the first of the fields
SetFieldsFirst(doc, fields) ==
  [f \in DOMAIN doc |-> IF fields[1].k = f THEN fields[1].v ELSE doc[f]]

\* collection.findOneAndUpdate({_id}, {$set: fields}): fields is a sequence of key/value pairs
SetFields(doc, fields) ==
  [f \in DOMAIN doc |->
     IF \E i \in 1..Len(fields) : fields[i].k = f
       THEN fields[CHOOSE i \in 1..Len(fields) : fields[i].k = f].v
       ELSE doc[f]]

QuestionAllowedUpdates == {"title", "content", "isResolved"}

\* the loop of updateQuestion over Object.entries(updates), from entry i on: [err, fields]
RECURSIVE QuestionUpdateFields(_, _, _)
QuestionUpdateFields(updates, i, fields) ==
  IF i > Len(updates) THEN [err |-> "", fields |-> fields]
  ELSE
    LET key == updates[i].k
        value == updates[i].v
        max == IF key = "title" THEN MaxTitleLen ELSE MaxQuestionContentLen
        str == validateString(value, IF key = "title" THEN "Title" ELSE "Content", 1, max)
    IN
      IF key \notin QuestionAllowedUpdates
        THEN [err |-> "Cannot update field: " \o key, fields |-> <<>>]
      ELSE IF key \in {"title", "content"}
        THEN IF str.err # "" THEN [err |-> str.err, fields |-> <<>>]
             ELSE QuestionUpdateFields(updates, i + 1,
                    Append(fields, [k |-> key, v |-> str.value]))
      ELSE IF key = "isResolved"
        THEN IF value.t # "boolean"
               THEN [err |-> "isResolved must be a boolean", fields |-> <<>>]
               ELSE QuestionUpdateFields(updates, i + 1,
                      Append(fields, [k |-> key, v |-> value.b]))
      ELSE QuestionUpdateFields(updates, i + 1, fields)

\* an updateQuestion that copies every key of the updates into the $set
updateQuestionAnyKey(qs, id, updates, t) ==
  IF id \notin DOMAIN qs THEN [err |-> "Question not found", questions |-> qs]
  ELSE [err |-> "",
        questions |-> [qs EXCEPT ![id] =
           SetFields(@, [i \in 1..Len(updates) |-> [k |-> updates[i].k, v |-> Raw(updates[i].v)]]
                          \o <<[k |-> "updatedAt", v |-> t]>>)]]

updateQuestion(qs, id, updates, t) ==
  LET upd == QuestionUpdateFields(updates, 1, <<>>) IN
    IF ~isValidObjectId(id) THEN [err |-> "Invalid question ID", questions |-> qs]
    ELSE IF Len(updates) = 0 THEN [err |-> "No updates provided", questions |-> qs]
    ELSE IF upd.err # "" THEN [err |-> upd.err, questions |-> qs]
    ELSE IF id \notin DOMAIN qs THEN [err |-> "Question not found", questions |-> qs]
    ELSE [err |-> "",
          questions |-> [qs EXCEPT ![id] =
             SetFields(@, upd.fields \o <<[k |-> "updatedAt", v |-> t]>>)]]

\* collection.deleteOne / deleteMany: the documents that do not match stay
Without(coll, gone) == [d \in DOMAIN coll \ gone |-> coll[d]]

deleteQuestion(qs, id) ==
  IF ~isValidObjectId(id) THEN [err |-> "Invalid question ID", questions |-> qs]
  ELSE IF id \notin DOMAIN qs THEN [err |-> "Question not found", questions |-> qs]
  ELSE [err |-> "", questions |-> Without(qs, {id})]

\* getQuestionById: the document with its posterName, or null
getQuestionById(qs, id) == IF id \in DOMAIN qs THEN {Populated(id, qs[id])} ELSE {}

\* getQuestionsByCourseId: [err, questions], questions the arrays the query can yield
getQuestionsByCourseId(qs, courseId, sortOption) ==
  LET matched ==
        {q \in DOMAIN qs :
           /\ qs[q].courseId = courseId
           /\ sortOption = <<"answered">> => qs[q].isResolved
           /\ sortOption = <<"unanswered">> => ~qs[q].isResolved}
      dir == IF sortOption = <<"oldest">> THEN 1 ELSE -1
  IN
    IF ~isValidObjectId(courseId) THEN [err |-> "Invalid course ID", questions |-> {}]
    ELSE [err |-> "",
          questions |-> {[i \in DOMAIN f |-> Populated(f[i], qs[f[i]])] :
                           f \in Sorted(qs, matched, dir)}]

\* the $match and $group of getNewQuestionCountsByCourseIds at time t
RecentCounts(qs, courseIds, cutoff) ==
  LET recent(c) == {q \in DOMAIN qs : qs[q].courseId = c /\ qs[q].createdAt >= cutoff}
      found == {c \in {courseIds[i] : i \in DOMAIN courseIds} : recent(c) # {}}
  IN [c \in found |-> Cardinality(recent(c))]

\* getNewQuestionCountsByCourseIds without the createdAt of its $match
getNewQuestionCountsByCourseIdsEver(qs, courseIds, t) ==
  IF Len(courseIds) = 0 THEN [err |-> "", counts |-> <<>>]
  ELSE IF \E i \in DOMAIN courseIds : ~isValidObjectId(courseIds[i])
    THEN [err |-> "Invalid course ID", counts |-> <<>>]
  ELSE [err |-> "", counts |-> RecentCounts(qs, courseIds, 0)]

\* getNewQuestionCountsByCourseIds at time t: [err, counts], counts the map
\* from course id to count
getNewQuestionCountsByCourseIds(qs, courseIds, t) ==
  IF Len(courseIds) = 0 THEN [err |-> "", counts |-> <<>>]
  ELSE IF \E i \in DOMAIN courseIds : ~isValidObjectId(courseIds[i])
    THEN [err |-> "Invalid course ID", counts |-> <<>>]
  ELSE [err |-> "", counts |-> RecentCounts(qs, courseIds, t - RecentWindow)]

\* getCourseById: the course, or null
getCourseById(courseId) == IF courseId \in Courses THEN {courseId} ELSE {}

\* getCoursesByStudentId: the arrays the query can yield
getCoursesByStudentId(studentId) ==
  Orderings({c \in Courses : studentId \in EnrolledStudents[c]})

---------------------------------------------------------------------------
(* Response data functions: each yields [err, responses] *)

createResponse(rs, id, data, t) ==
  LET content == validateString(data.content, "Content", 1, MaxResponseContentLen)
      isAnonymous == IF data.isAnonymous.t # "undefined" THEN data.isAnonymous ELSE Bool(FALSE)
  IN
    IF ~isValidObjectId(data.questionId) THEN [err |-> "Invalid question ID", responses |-> rs]
    ELSE IF ~isValidObjectId(data.posterId) THEN [err |-> "Invalid poster ID", responses |-> rs]
    ELSE IF content.err # "" THEN [err |-> content.err, responses |-> rs]
    ELSE IF isAnonymous.t # "boolean"
      THEN [err |-> "isAnonymous must be a boolean", responses |-> rs]
    ELSE [err |-> "",
          responses |-> [r \in DOMAIN rs \cup {id} |->
             IF r = id
               THEN [questionId |-> data.questionId, posterId |-> data.posterId,
                     content |-> content.value, isAnonymous |-> isAnonymous.b,
                     isHelpful |-> FALSE, createdAt |-> t, updatedAt |-> t]
               ELSE rs[r]]]

ResponseAllowedUpdates == {"content", "isHelpful"}

\* the loop of updateResponse over Object.entries(updates), from entry i on: [err, fields]
RECURSIVE ResponseUpdateFields(_, _, _)
ResponseUpdateFields(updates, i, fields) ==
  IF i > Len(updates) THEN [err |-> "", fields |-> fields]
  ELSE
    LET key == updates[i].k
        value == updates[i].v
        str == validateString(value, "Content", 1, MaxResponseContentLen)
    IN
      IF key \notin ResponseAllowedUpdates
        THEN [err |-> "Cannot update field: " \o key, fields |-> <<>>]
      ELSE IF key = "content"
        THEN IF str.err # "" THEN [err |-> str.err, fields |-> <<>>]
             ELSE ResponseUpdateFields(updates, i + 1,
                    Append(fields, [k |-> key, v |-> str.value]))
      ELSE IF key = "isHelpful"
        THEN IF value.t # "boolean"
               THEN [err |-> "isHelpful must be a boolean", fields |-> <<>>]
               ELSE ResponseUpdateFields(updates, i + 1,
                      Append(fields, [k |-> key, v |-> value.b]))
      ELSE ResponseUpdateFields(updates, i + 1, fields)

\* an updateResponse that copies every key of the updates into the $set
updateResponseAnyKey(rs, id, updates, t) ==
  IF id \notin DOMAIN rs THEN [err |-> "Response not found", responses |-> rs]
  ELSE [err |-> "",
        responses |-> [rs EXCEPT ![id] =
           SetFields(@, [i \in 1..Len(updates) |-> [k |-> updates[i].k, v |-> Raw(updates[i].v)]]
                          \o <<[k |-> "updatedAt", v |-> t]>>)]]

updateResponse(rs, id, updates, t) ==
  LET upd == ResponseUpdateFields(updates, 1, <<>>) IN
    IF ~isValidObjectId(id) THEN [err |-> "Invalid response ID", responses |-> rs]
    ELSE IF Len(updates) = 0 THEN [err |-> "No updates provided", responses |-> rs]
    ELSE IF upd.err # "" THEN [err |-> upd.err, responses |-> rs]
    ELSE IF id \notin DOMAIN rs THEN [err |-> "Response not found", responses |-> rs]
    ELSE [err |-> "",
          responses |-> [rs EXCEPT ![id] =
             SetFields(@, upd.fields \o <<[k |-> "updatedAt", v |-> t]>>)]]

\* getResponsesByQuestionId: [err, responses], responses the arrays the query can yield
getResponsesByQuestionId(rs, questionId, sortOption) ==
  LET matched == {r \in DOMAIN rs : rs[r].questionId = questionId}
      dir == IF sortOption = <<"oldest">> THEN 1 ELSE -1
  IN
    IF ~isValidObjectId(questionId) THEN [err |-> "Invalid question ID", responses |-> {}]
    ELSE [err |-> "",
          responses |-> {[i \in DOMAIN f |-> Populated(f[i], rs[f[i]])] :
                           f \in Sorted(rs, matched, dir)}]

deleteResponse(rs, id) ==
  IF ~isValidObjectId(id) THEN [err |-> "Invalid response ID", responses |-> rs]
  ELSE IF id \notin DOMAIN rs THEN [err |-> "Response not found", responses |-> rs]
  ELSE [err |-> "", responses |-> Without(rs, {id})]

\* a deleteMany whose filter matches every response
deleteResponsesByQuestionIdAll(rs, questionId) ==
  IF ~isValidObjectId(questionId) THEN [err |-> "Invalid question ID", responses |-> rs]
  ELSE [err |-> "", responses |-> Without(rs, DOMAIN rs)]

deleteResponsesByQuestionId(rs, questionId) ==
  IF ~isValidObjectId(questionId) THEN [err |-> "Invalid question ID", responses |-> rs]
  ELSE [err |-> "",
        responses |-> Without(rs, {r \in DOMAIN rs : rs[r].questionId = questionId})]

---------------------------------------------------------------------------
(* Notification data functions: each yields [err, notifications] *)

createNotification(ns, id, data, t) ==
  LET type == validateString(data.type, "Type", 1, MaxStringLen)
      message == validateString(data.message, "Message", 1, MaxStringLen)
  IN
    IF ~isValidObjectId(data.recipientId)
      THEN [err |-> "Invalid recipient ID", notifications |-> ns]
    ELSE IF ~isValidObjectId(data.questionId)
      THEN [err |-> "Invalid question ID", notifications |-> ns]
    ELSE IF ~isValidObjectId(data.senderId)
      THEN [err |-> "Invalid sender ID", notifications |-> ns]
    ELSE IF type.err # "" THEN [err |-> type.err, notifications |-> ns]
    ELSE IF message.err # "" THEN [err |-> message.err, notifications |-> ns]
    ELSE [err |-> "",
          notifications |-> [n \in DOMAIN ns \cup {id} |->
             IF n = id
               THEN [recipientId |-> data.recipientId, questionId |-> data.questionId,
                     senderId |-> data.senderId, type |-> type.value,
                     message |-> message.value, isRead |-> FALSE, createdAt |-> t]
               ELSE ns[n]]]

\* markNotificationAsRead with $set {isRead: !isRead}
markNotificationAsReadToggle(ns, id) ==
  IF ~isValidObjectId(id) THEN [err |-> "Invalid notification ID", notifications |-> ns]
  ELSE IF id \notin DOMAIN ns THEN [err |-> "Notification not found", notifications |-> ns]
  ELSE [err |-> "", notifications |-> [ns EXCEPT ![id].isRead = ~@]]

markNotificationAsRead(ns, id) ==
  IF ~isValidObjectId(id) THEN [err |-> "Invalid notification ID", notifications |-> ns]
  ELSE IF id \notin DOMAIN ns THEN [err |-> "Notification not found", notifications |-> ns]
  ELSE [err |-> "", notifications |-> [ns EXCEPT ![id].isRead = TRUE]]

\* markAllNotificationsAsRead without the recipientId in its filter
markAllNotificationsAsReadAnyRecipient(ns, studentId) ==
  LET matched == {n \in DOMAIN ns : ~ns[n].isRead} IN
    IF ~isValidObjectId(studentId)
      THEN [err |-> "Invalid student ID", notifications |-> ns, modifiedCount |-> 0]
      ELSE [err |-> "",
            notifications |-> [n \in DOMAIN ns |->
               IF n \in matched THEN [ns[n] EXCEPT !.isRead = TRUE] ELSE ns[n]],
            modifiedCount |-> Cardinality(matched)]

\* markAllNotificationsAsRead without isRead in its filter, flipping the flag
markAllNotificationsAsReadFlip(ns, studentId) ==
  LET matched == {n \in DOMAIN ns : ns[n].recipientId = studentId} IN
    IF ~isValidObjectId(studentId)
      THEN [err |-> "Invalid student ID", notifications |-> ns, modifiedCount |-> 0]
      ELSE [err |-> "",
            notifications |-> [n \in DOMAIN ns |->
               IF n \in matched THEN [ns[n] EXCEPT !.isRead = ~@] ELSE ns[n]],
            modifiedCount |-> Cardinality(matched)]

markAllNotificationsAsRead(ns, studentId) ==
  LET matched == {n \in DOMAIN ns : ns[n].recipientId = studentId /\ ~ns[n].isRead} IN
    IF ~isValidObjectId(studentId)
      THEN [err |-> "Invalid student ID", notifications |-> ns, modifiedCount |-> 0]
      ELSE [err |-> "",
            notifications |-> [n \in DOMAIN ns |->
               IF n \in matched THEN [ns[n] EXCEPT !.isRead = TRUE] ELSE ns[n]],
            modifiedCount |-> Cardinality(matched)]

\* deleteNotificationsByQuestionId without the check of its id
deleteNotificationsByQuestionIdUnchecked(ns, questionId) ==
  [err |-> "",
   notifications |-> Without(ns, {n \in DOMAIN ns : ns[n].questionId = questionId})]

deleteNotificationsByQuestionId(ns, questionId) ==
  IF ~isValidObjectId(questionId) THEN [err |-> "Invalid question ID", notifications |-> ns]
  ELSE [err |-> "",
        notifications |-> Without(ns, {n \in DOMAIN ns : ns[n].questionId = questionId})]

deleteNotification(ns, id) ==
  IF ~isValidObjectId(id) THEN [err |-> "Invalid notification ID", notifications |-> ns]
  ELSE IF id \notin DOMAIN ns THEN [err |-> "Notification not found", notifications |-> ns]
  ELSE [err |-> "", notifications |-> Without(ns, {id})]

---------------------------------------------------------------------------
(* The reads by id, as calls: each yields [err, result] *)

\* getQuestionById with the throw on its id
QuestionById(qs, id) ==
  IF ~isValidObjectId(id) THEN [err |-> "Invalid question ID", result |-> {}]
  ELSE [err |-> "", result |-> getQuestionById(qs, id)]

getResponseById(rs, id) ==
  IF ~isValidObjectId(id) THEN [err |-> "Invalid response ID", result |-> {}]
  ELSE [err |-> "", result |-> IF id \in DOMAIN rs THEN {rs[id]} ELSE {}]

getNotificationById(ns, id) ==
  IF ~isValidObjectId(id) THEN [err |-> "Invalid notification ID", result |-> {}]
  ELSE [err |-> "", result |-> IF id \in DOMAIN ns THEN {ns[id]} ELSE {}]

\* result: the arrays the query can yield
getNotificationsByStudentId(ns, studentId, unreadOnly) ==
  LET matched == {n \in DOMAIN ns : /\ ns[n].recipientId = studentId
                                    /\ unreadOnly => ~ns[n].isRead}
  IN
    IF ~isValidObjectId(studentId) THEN [err |-> "Invalid student ID", result |-> {}]
    ELSE [err |-> "", result |-> {[i \in DOMAIN f |-> ns[f[i]]] : f \in Sorted(ns, matched, -1)}]

getUnreadNotificationCount(ns, studentId) ==
  IF ~isValidObjectId(studentId) THEN [err |-> "Invalid student ID", result |-> 0]
  ELSE [err |-> "",
        result |-> Cardinality({n \in DOMAIN ns :
                                  ns[n].recipientId = studentId /\ ~ns[n].isRead})]

---------------------------------------------------------------------------
(* Student data functions *)

Num(n) == [t |-> "number", n |-> n]

UpperCase ==
  <<"A", "B", "C", "D", "E", "F", "G", "H", "I", "J", "K", "L", "M",
    "N", "O", "P", "Q", "R", "S", "T", "U", "V", "W", "X", "Y", "Z">>

LowerCase ==
  <<"a", "b", "c", "d", "e", "f", "g", "h", "i", "j", "k", "l", "m",
    "n", "o", "p", "q", "r", "s", "t", "u", "v", "w", "x", "y", "z">>

\* String.prototype.toLowerCase
toLowerCase(s) ==
  [i \in DOMAIN s |->
     IF \E k \in DOMAIN UpperCase : UpperCase[k] = s[i]
       THEN LowerCase[CHOOSE k \in DOMAIN UpperCase : UpperCase[k] = s[i]]
       ELSE s[i]]

\* String.prototype.endsWith
EndsWith(s, suffix) ==
  Len(s) >= Len(suffix) /\ SubSeq(s, Len(s) - Len(suffix) + 1, Len(s)) = suffix

\* /^[^\s@]+@[^\s@]+\.[^\s@]+$/ on the lowercased email
isValidEmail(email) ==
  LET e == toLowerCase(email) IN
    /\ \A i \in DOMAIN e : e[i] # " "
    /\ \E at \in DOMAIN e :
         /\ e[at] = "@"
         /\ \A i \in DOMAIN e : e[i] = "@" => i = at
         /\ at > 1
         /\ \E dot \in DOMAIN e : e[dot] = "." /\ dot > at + 1 /\ dot < Len(e)

StevensDomain == <<"@", "s", "t", "e", "v", "e", "n", "s", ".", "e", "d", "u">>

isValidStevensEmail(email) ==
  isValidEmail(email) /\ EndsWith(toLowerCase(email), StevensDomain)

\* validateNumber: the error, "" if there is none
validateNumber(value, fieldName, min, max) ==
  IF value.t = "undefined" THEN fieldName \o " is required"
  ELSE IF value.t # "number" THEN fieldName \o " must be a valid number"
  ELSE IF value.n < min \/ value.n > max
    THEN fieldName \o " must be between " \o ToString(min) \o " and " \o ToString(max)
  ELSE ""

\* createStudent up to its first await: [err, universityEmail]. data is
\* [firstName, universityEmail, age]; lastName, hashedPassword and major are
\* valid strings and enrolledCourses is absent
StudentValidation(data) ==
  LET firstName == validateString(data.firstName, "First name", 1, MaxNameLen)
      universityEmail == validateString(data.universityEmail, "University email",
                                        1, MaxStringLen)
      age == validateNumber(data.age, "Age", MinAge, MaxAge)
  IN
    IF firstName.err # "" THEN [err |-> firstName.err, universityEmail |-> <<>>]
    ELSE IF universityEmail.err # "" THEN [err |-> universityEmail.err, universityEmail |-> <<>>]
    ELSE IF age # "" THEN [err |-> age, universityEmail |-> <<>>]
    ELSE IF ~isValidStevensEmail(universityEmail.value)
      THEN [err |-> "University email must be a valid @stevens.edu address",
            universityEmail |-> <<>>]
    ELSE [err |-> "", universityEmail |-> universityEmail.value]

\* studentsCollection.findOne({universityEmail: universityEmail.toLowerCase()})
ExistingStudent(ss, universityEmail) ==
  {i \in DOMAIN ss : ss[i].universityEmail = toLowerCase(universityEmail)}

\* studentsCollection.insertOne(newStudent)
InsertStudent(ss, data, universityEmail) ==
  Append(ss, [firstName |-> Trim(data.firstName.s),
              universityEmail |-> toLowerCase(universityEmail),
              age |-> data.age.n])

\* createStudent when nothing else runs between its awaits: [err, students]
createStudent(ss, data) ==
  LET valid == StudentValidation(data) IN
    IF valid.err # "" THEN [err |-> valid.err, students |-> ss]
    ELSE IF ExistingStudent(ss, valid.universityEmail) # {}
      THEN [err |-> "A student with this email already exists", students |-> ss]
    ELSE [err |-> "", students |-> InsertStudent(ss, data, valid.universityEmail)]

\* the session store of express-session before any login
NoSessions == [issued |-> 0, store |-> <<>>]

---------------------------------------------------------------------------
(* Handlers *)

\* pc: the await the in-flight question-delete handler is at ("idle": none was
\* accepted yet, "failed": it ended in an error, "done": it replied 200);
\* removed: the documents it deleted so far; failures: the attempts that ended
\* in an error
NoCascade == [pc |-> "idle", actor |-> 0, id |-> 0, removed |-> 0, failures |-> 0]

Init ==
  /\ questions = <<>>
  /\ responses = <<>>
  /\ notifications = <<>>
  /\ ids = [q |-> 1, r |-> 1, n |-> 1]
  /\ now = 0
  /\ last = NoReply
  /\ cascade = NoCascade
  /\ served = 0
  /\ students = <<>>
  /\ signup = <<>>
  /\ sessions = NoSessions
  /\ pending = <<>>

\* time passes between two requests
Tick ==
  /\ served < MaxRequests
  /\ now < MaxTime
  /\ now' = now + 1
  /\ UNCHANGED <<questions, responses, notifications, ids, last, cascade, served,
               students, signup, sessions, pending>>

\* POST /api/questions
PostQuestion(actor, courseId, title, content, isAnonymous) ==
  LET op == "PostQuestion"
      valid == /\ isValidObjectId(courseId)
               /\ RequiredLengthOk(title, MaxTitleLen)
               /\ RequiredLengthOk(content, MaxQuestionContentLen)
               /\ OptionalBooleanOk(isAnonymous)
      data == [courseId |-> courseId, posterId |-> actor,
               title |-> IF title.t = "string" THEN Str(Trim(title.s)) ELSE title,
               content |-> IF content.t = "string" THEN Str(Trim(content.s)) ELSE content,
               isAnonymous |-> IF isAnonymous.t = "undefined" THEN Bool(FALSE) ELSE isAnonymous]
      res == createQuestion(questions, ids.q, data, now)
  IN
    /\ IF ~valid
         THEN /\ last' = Reply(op, actor, 0, 400, "validation")
              /\ UNCHANGED <<questions, ids>>
         ELSE IF res.err # ""
           THEN /\ last' = Reply(op, actor, 0, 500, res.err)
                /\ UNCHANGED <<questions, ids>>
           ELSE /\ ids.q <= MaxQuestions
                /\ questions' = res.questions
                /\ ids' = [ids EXCEPT !.q = @ + 1]
                /\ last' = Reply(op, actor, ids.q, 201, "")
    /\ UNCHANGED <<responses, notifications, now, students, signup, sessions, pending, cascade>>

\* the validators of PATCH /api/questions/:questionId
PatchQuestionValid(questionId, body) ==
  /\ isValidObjectId(questionId)
  /\ OptionalLengthOk(body, "title", MaxTitleLen)
  /\ OptionalLengthOk(body, "content", MaxQuestionContentLen)
  /\ OptionalBooleanOk(Get(body, "isResolved"))

\* PATCH /api/questions/:questionId
PatchQuestion(actor, questionId, body) ==
  LET op == "PatchQuestion"
      valid == PatchQuestionValid(questionId, body)
      updates == Sanitize(Sanitize(body, "title"), "content")
      question == getQuestionById(questions, questionId)
      res == updateQuestion(questions, questionId, updates, now)
  IN
    /\ IF ~valid THEN
         /\ last' = Reply(op, actor, questionId, 400, "validation")
         /\ UNCHANGED questions
       ELSE IF question = {} THEN
         /\ last' = Reply(op, actor, questionId, 404, "Question not found")
         /\ UNCHANGED questions
       ELSE IF ~IsPoster(questions[questionId], actor) THEN
         /\ last' = Reply(op, actor, questionId, 403, "You can only edit your own questions")
         /\ UNCHANGED questions
       ELSE IF res.err # "" THEN
         /\ last' = Reply(op, actor, questionId, 500, res.err)
         /\ UNCHANGED questions
       ELSE
         /\ questions' = res.questions
         /\ last' = Reply(op, actor, questionId, 200, "")
    /\ UNCHANGED <<responses, notifications, ids, now, students, signup, sessions, pending, cascade>>

\* DELETE /api/questions/:questionId, run without interleaving
DeleteQuestion(actor, questionId) ==
  LET op == "DeleteQuestion"
      question == getQuestionById(questions, questionId)
      rs == deleteResponsesByQuestionId(responses, questionId)
      ns == deleteNotificationsByQuestionId(notifications, questionId)
      qs == deleteQuestion(questions, questionId)
  IN
    /\ IF ~isValidObjectId(questionId) THEN
         /\ last' = Reply(op, actor, questionId, 400, "validation")
         /\ UNCHANGED store
       ELSE IF question = {} THEN
         /\ last' = Reply(op, actor, questionId, 404, "Question not found")
         /\ UNCHANGED store
       ELSE IF ~IsPoster(questions[questionId], actor) THEN
         /\ last' = Reply(op, actor, questionId, 403, "You can only delete your own questions")
         /\ UNCHANGED store
       ELSE
         /\ responses' = rs.responses
         /\ notifications' = ns.notifications
         /\ questions' = qs.questions
         /\ last' = Reply(op, actor, questionId, 200, "")
    /\ UNCHANGED <<ids, now, students, signup, sessions, pending, cascade>>

\* The notification try block of a handler. fault: "none", or the call that throws
\* when it is reached: "lookup" (getQuestionById), "insert" (createNotification).
\* reached: the try block's lookup runs; fire: createNotification is called.
Thrown(reached, fire, fault) ==
  \/ fault = "lookup" /\ reached
  \/ fault = "insert" /\ reached /\ fire

\* the notifications collection after the try block
\* a Notify that inserts nothing
NotifySkipped(fire, data, fault) == notifications

Notify(fire, data, fault) ==
  IF fault # "none" \/ ~fire THEN notifications
  ELSE createNotification(notifications, ids.n, data, now).notifications

\* POST /api/responses
PostResponse(actor, questionId, content, isAnonymous, fault) ==
  LET op == "PostResponse"
      valid == /\ isValidObjectId(questionId)
               /\ RequiredLengthOk(content, MaxResponseContentLen)
               /\ OptionalBooleanOk(isAnonymous)
      data == [questionId |-> questionId, posterId |-> actor,
               content |-> IF content.t = "string" THEN Str(Trim(content.s)) ELSE content,
               isAnonymous |-> IF isAnonymous.t = "undefined" THEN Bool(FALSE) ELSE isAnonymous]
      res == createResponse(responses, ids.r, data, now)
      question == getQuestionById(questions, questionId)
      fire == question # {} /\ NotifiesAsker(questions[questionId], actor)
      responderName == IF data.isAnonymous.b THEN "Someone" ELSE FirstName(actor)
      note == [recipientId |-> questions[questionId].posterId,
               questionId |-> questionId,
               senderId |-> actor,
               type |-> Str(<<"new_response">>),
               message |-> Str(<<responderName, " replied to your question: \"">>
                                 \o questions[questionId].title \o <<"\"">>)]
      inserted == fire /\ fault = "none"
  IN
    /\ IF ~valid THEN
         /\ last' = Reply(op, actor, questionId, 400, "validation")
         /\ UNCHANGED <<responses, notifications, ids>>
       ELSE IF res.err # "" THEN
         /\ last' = Reply(op, actor, questionId, 500, res.err)
         /\ UNCHANGED <<responses, notifications, ids>>
       ELSE
         /\ ids.r <= MaxResponses
         /\ inserted => ids.n <= MaxNotifications
         /\ responses' = res.responses
         /\ notifications' = Notify(fire, note, fault)
         /\ ids' = [ids EXCEPT !.r = @ + 1, !.n = IF inserted THEN @ + 1 ELSE @]
         /\ last' = Caught(op, actor, ids.r, 201, Thrown(TRUE, fire, fault))
    /\ UNCHANGED <<questions, now, students, signup, sessions, pending, cascade>>

\* the validators of PATCH /api/responses/:responseId
PatchResponseValid(responseId, body) ==
  /\ isValidObjectId(responseId)
  /\ OptionalLengthOk(body, "content", MaxResponseContentLen)

\* PATCH /api/responses/:responseId
PatchResponse(actor, responseId, body) ==
  LET op == "PatchResponse"
      valid == PatchResponseValid(responseId, body)
      updates == Sanitize(body, "content")
      res == updateResponse(responses, responseId, updates, now)
  IN
    /\ IF ~valid THEN
         /\ last' = Reply(op, actor, responseId, 400, "validation")
         /\ UNCHANGED responses
       ELSE IF responseId \notin DOMAIN responses THEN
         /\ last' = Reply(op, actor, responseId, 404, "Response not found")
         /\ UNCHANGED responses
       ELSE IF ~IsPoster(responses[responseId], actor) THEN
         /\ last' = Reply(op, actor, responseId, 403, "You can only edit your own responses")
         /\ UNCHANGED responses
       ELSE IF res.err # "" THEN
         /\ last' = Reply(op, actor, responseId, 500, res.err)
         /\ UNCHANGED responses
       ELSE
         /\ responses' = res.responses
         /\ last' = Reply(op, actor, responseId, 200, "")
    /\ UNCHANGED <<questions, notifications, ids, now, students, signup, sessions, pending, cascade>>

\* DELETE /api/responses/:responseId
DeleteResponse(actor, responseId) ==
  LET op == "DeleteResponse"
      res == deleteResponse(responses, responseId)
  IN
    /\ IF ~isValidObjectId(responseId) THEN
         /\ last' = Reply(op, actor, responseId, 400, "validation")
         /\ UNCHANGED responses
       ELSE IF responseId \notin DOMAIN responses THEN
         /\ last' = Reply(op, actor, responseId, 404, "Response not found")
         /\ UNCHANGED responses
       ELSE IF ~IsPoster(responses[responseId], actor) THEN
         /\ last' = Reply(op, actor, responseId, 403, "You can only delete your own responses")
         /\ UNCHANGED responses
       ELSE
         /\ responses' = res.responses
         /\ last' = Reply(op, actor, responseId, 200, "")
    /\ UNCHANGED <<questions, notifications, ids, now, students, signup, sessions, pending, cascade>>

\* PATCH /api/responses/:responseId/helpful
MarkHelpful(actor, responseId, isHelpful, fault) ==
  LET op == "MarkHelpful"
      valid == isValidObjectId(responseId) /\ IsBooleanLike(isHelpful)
      res == updateResponse(responses, responseId, <<[k |-> "isHelpful", v |-> isHelpful]>>, now)
      response == responses[responseId]
      question == getQuestionById(questions, response.questionId)
      wanted == NotifiesResponder(isHelpful.b, response, actor)
      fire == wanted /\ question # {}
      note == [recipientId |-> response.posterId,
               questionId |-> response.questionId,
               senderId |-> actor,
               type |-> Str(<<"helpful_mark">>),
               message |-> Str(<<"Your response to \"">>
                                 \o questions[response.questionId].title
                                 \o <<"\" was marked as helpful!">>)]
      inserted == fire /\ fault = "none"
  IN
    /\ IF ~valid THEN
         /\ last' = Reply(op, actor, responseId, 400, "validation")
         /\ UNCHANGED <<responses, notifications, ids>>
       ELSE IF responseId \notin DOMAIN responses THEN
         /\ last' = Reply(op, actor, responseId, 404, "Response not found")
         /\ UNCHANGED <<responses, notifications, ids>>
       ELSE IF res.err # "" THEN
         /\ last' = Reply(op, actor, responseId, 500, res.err)
         /\ UNCHANGED <<responses, notifications, ids>>
       ELSE
         /\ inserted => ids.n <= MaxNotifications
         /\ responses' = res.responses
         /\ notifications' = Notify(fire, note, fault)
         /\ ids' = [ids EXCEPT !.n = IF inserted THEN @ + 1 ELSE @]
         /\ last' = Caught(op, actor, responseId, 200, Thrown(wanted, fire, fault))
    /\ UNCHANGED <<questions, now, students, signup, sessions, pending, cascade>>

\* PATCH /api/notifications/:notificationId/read
MarkRead(actor, notificationId) ==
  LET op == "MarkRead"
      res == markNotificationAsRead(notifications, notificationId)
  IN
    /\ IF ~isValidObjectId(notificationId) THEN
         /\ last' = Reply(op, actor, notificationId, 400, "validation")
         /\ UNCHANGED notifications
       ELSE IF res.err # "" THEN
         /\ last' = Reply(op, actor, notificationId, 500, res.err)
         /\ UNCHANGED notifications
       ELSE
         /\ notifications' = res.notifications
         /\ last' = Reply(op, actor, notificationId, 200, "")
    /\ UNCHANGED <<questions, responses, ids, now, students, signup, sessions, pending, cascade>>

\* PATCH /api/notifications/read-all
MarkAllRead(actor) ==
  LET res == markAllNotificationsAsRead(notifications, actor) IN
    /\ notifications' = res.notifications
    /\ last' = Reply("MarkAllRead", actor, res.modifiedCount, 200, "")
    /\ UNCHANGED <<questions, responses, ids, now, students, signup, sessions, pending, cascade>>

\* GET /api/questions/detail/:questionId
GetQuestion(actor, questionId) ==
  LET op == "GetQuestion"
      question == getQuestionById(questions, questionId)
  IN
    /\ IF ~isValidObjectId(questionId) THEN
         last' = Reply(op, actor, questionId, 400, "validation")
       ELSE IF question = {} THEN
         last' = Reply(op, actor, questionId, 404, "Question not found")
       ELSE
         \E doc \in question :
           last' = [Reply(op, actor, questionId, 200, "") EXCEPT !.body = doc]
    /\ UNCHANGED <<store, ids, now, students, signup, sessions, pending, cascade>>

\* query('sort').optional().isIn(allowed)
OptionalSortOk(sort, allowed) ==
  sort.t = "undefined" \/ (sort.t = "string" /\ sort.s \in allowed)

\* const { sort = 'newest' } = req.query
SortOption(sort) == IF sort.t = "undefined" THEN <<"newest">> ELSE sort.s

\* GET /api/questions/:courseId
ListQuestions(actor, courseId, sort) ==
  LET op == "ListQuestions"
      valid == /\ isValidObjectId(courseId)
               /\ OptionalSortOk(sort, {<<"answered">>, <<"unanswered">>,
                                         <<"newest">>, <<"oldest">>})
      res == getQuestionsByCourseId(questions, courseId, SortOption(sort))
  IN
    /\ IF ~valid THEN
         last' = Reply(op, actor, courseId, 400, "validation")
       ELSE
         \E result \in res.questions :
           last' = [Reply(op, actor, courseId, 200, "") EXCEPT !.body = result]
    /\ UNCHANGED <<store, ids, now, students, signup, sessions, pending, cascade>>

\* GET /api/courses
ListCourses(actor) ==
  /\ \E courses \in getCoursesByStudentId(actor) :
       LET res == getNewQuestionCountsByCourseIds(questions, courses, now)
           newQuestionCounts == IF Len(courses) > 0 THEN res.counts ELSE <<>>
           coursesWithCounts ==
             [i \in DOMAIN courses |->
                [_id |-> courses[i],
                 newQuestionCount |-> IF courses[i] \in DOMAIN newQuestionCounts
                                        THEN newQuestionCounts[courses[i]] ELSE 0]]
       IN IF Len(courses) > 0 /\ res.err # ""
            THEN last' = Reply("ListCourses", actor, 0, 500, res.err)
            ELSE last' = [Reply("ListCourses", actor, 0, 200, "")
                            EXCEPT !.body = coursesWithCounts]
  /\ UNCHANGED <<store, ids, now, students, signup, sessions, pending, cascade>>

\* GET /api/courses/:courseId
GetCourse(actor, courseId) ==
  LET op == "GetCourse" IN
    /\ IF ~isValidObjectId(courseId) THEN
         last' = Reply(op, actor, courseId, 400, "validation")
       ELSE IF getCourseById(courseId) = {} THEN
         last' = Reply(op, actor, courseId, 404, "Course not found")
       ELSE
         last' = [Reply(op, actor, courseId, 200, "") EXCEPT !.body = <<courseId>>]
    /\ UNCHANGED <<store, ids, now, students, signup, sessions, pending, cascade>>

\* GET /api/notifications
GetNotifications(actor, unreadOnly) ==
  LET op == "GetNotifications"
      only == ~(unreadOnly.t = "string" /\ unreadOnly.s = <<"f", "a", "l", "s", "e">>)
      res == getNotificationsByStudentId(notifications, actor, only)
  IN
    /\ IF ~OptionalBooleanOk(unreadOnly) THEN
         last' = Reply(op, actor, 0, 400, "validation")
       ELSE IF res.err # "" THEN
         last' = Reply(op, actor, 0, 500, res.err)
       ELSE
         \E result \in res.result :
           last' = [Reply(op, actor, 0, 200, "") EXCEPT !.body = result]
    /\ UNCHANGED <<store, ids, now, students, signup, sessions, pending, cascade>>

\* GET /api/responses/:questionId
ListResponses(actor, questionId, sort) ==
  LET op == "ListResponses"
      valid == /\ isValidObjectId(questionId)
               /\ OptionalSortOk(sort, {<<"newest">>, <<"oldest">>})
      res == getResponsesByQuestionId(responses, questionId, SortOption(sort))
  IN
    /\ IF ~valid THEN
         last' = Reply(op, actor, questionId, 400, "validation")
       ELSE
         \E result \in res.responses :
           last' = [Reply(op, actor, questionId, 200, "") EXCEPT !.body = result]
    /\ UNCHANGED <<store, ids, now, students, signup, sessions, pending, cascade>>

---------------------------------------------------------------------------
(* Request bodies the specifications draw from *)

True == Str(<<"t", "r", "u", "e">>)

\* bodies of POST /api/questions: [courseId, title, content, isAnonymous]
QuestionPosts ==
  LET ok == [courseId |-> 1, title |-> Str(<<" ", "t">>), content |-> Str(<<"c">>),
             isAnonymous |-> Undefined]
  IN { ok,
       [ok EXCEPT !.isAnonymous = Bool(TRUE)],
       [ok EXCEPT !.isAnonymous = True],
       [ok EXCEPT !.courseId = MalformedId],
       [ok EXCEPT !.title = Str(<<" ">>)],
       [ok EXCEPT !.title = Str(Long(MaxTitleLen + 1))],
       [ok EXCEPT !.content = Str(Long(MaxQuestionContentLen + 1))] }

\* bodies of POST /api/responses, but for the questionId: [content, isAnonymous]
ResponsePosts ==
  LET ok == [content |-> Str(<<"r", " ">>), isAnonymous |-> Undefined]
  IN { ok,
       [ok EXCEPT !.isAnonymous = Bool(TRUE)],
       [ok EXCEPT !.isAnonymous = True],
       [ok EXCEPT !.content = Str(<<>>)],
       [ok EXCEPT !.content = Str(Long(MaxResponseContentLen + 1))] }

HelpfulInputs == {Bool(TRUE), Bool(FALSE), True, Undefined}

\* values of the sort query parameter
SortInputs ==
  {Undefined, Str(<<"newest">>), Str(<<"oldest">>), Str(<<"answered">>),
   Str(<<"unanswered">>), Str(<<"x">>)}

KV(k, v) == [k |-> k, v |-> v]

QuestionBodies ==
  { <<>>,
    <<KV("title", Str(<<"t", "2", " ">>))>>,
    <<KV("title", Str(<<" ">>))>>,
    <<KV("content", Str(Long(MaxQuestionContentLen + 1)))>>,
    <<KV("isResolved", Bool(TRUE))>>,
    <<KV("isResolved", Bool(FALSE))>>,
    <<KV("isResolved", True)>>,
    <<KV("isResolved", Str(<<"x">>))>>,
    <<KV("posterId", Id(2))>>,
    <<KV("isAnonymous", Bool(TRUE))>>,
    <<KV("createdAt", Id(0))>>,
    <<KV("isResolved", Bool(TRUE)), KV("posterId", Id(2))>>,
    <<KV("courseId", Id(2)), KV("title", Str(<<"t", "2">>))>> }

ResponseBodies ==
  { <<>>,
    <<KV("content", Str(<<" ", "r", "2">>))>>,
    <<KV("content", Str(<<" ">>))>>,
    <<KV("content", Str(Long(MaxResponseContentLen + 1)))>>,
    <<KV("isHelpful", Bool(TRUE))>>,
    <<KV("isHelpful", True)>>,
    <<KV("posterId", Id(1))>>,
    <<KV("questionId", Id(2))>>,
    <<KV("isAnonymous", Bool(TRUE))>>,
    <<KV("createdAt", Id(0))>>,
    <<KV("content", Str(<<"r", "2">>)), KV("posterId", Id(1))>>,
    <<KV("questionId", Id(2)), KV("isHelpful", Bool(FALSE))>> }

---------------------------------------------------------------------------
(* The sequential specification: every request runs to completion *)

\* one of the requests under study is served
Serve(Handler) ==
  /\ served < MaxRequests
  /\ Handler
  /\ served' = served + 1

\* every request but DELETE /api/questions/:questionId
OtherRequests(faults) ==
  \/ \E actor \in Students, body \in QuestionPosts :
       Serve(PostQuestion(actor, body.courseId, body.title, body.content, body.isAnonymous))
  \/ \E actor \in Students, id \in QuestionIds \cup {MalformedId}, body \in QuestionBodies :
       Serve(PatchQuestion(actor, id, body))
  \/ \E actor \in Students, id \in QuestionIds \cup {MalformedId},
        body \in ResponsePosts, fault \in faults :
       Serve(PostResponse(actor, id, body.content, body.isAnonymous, fault))
  \/ \E actor \in Students, id \in ResponseIds \cup {MalformedId}, body \in ResponseBodies :
       Serve(PatchResponse(actor, id, body))
  \/ \E actor \in Students, id \in ResponseIds \cup {MalformedId} :
       Serve(DeleteResponse(actor, id))
  \/ \E actor \in Students, id \in ResponseIds \cup {MalformedId},
        isHelpful \in HelpfulInputs, fault \in faults :
       Serve(MarkHelpful(actor, id, isHelpful, fault))
  \/ \E actor \in Students, id \in NotificationIds \cup {MalformedId} :
       Serve(MarkRead(actor, id))
  \/ \E actor \in Students :
       Serve(MarkAllRead(actor))

Requests(faults) ==
  \/ OtherRequests(faults)
  \/ \E actor \in Students, id \in QuestionIds \cup {MalformedId} :
       Serve(DeleteQuestion(actor, id))

\* The traffic before the requests under study, all of it at time 0: questions
\* are asked, then answered, and askers mark answers helpful. Each step is a
\* request handled as any other.
ValidQuestion ==
  [courseId |-> 1, title |-> Str(<<" ", "t">>), content |-> Str(<<"c">>),
   isAnonymous |-> Undefined]

ValidResponse == [content |-> Str(<<"r", " ">>), isAnonymous |-> Undefined]

Populate ==
  /\ served = 0
  /\ now = 0
  /\ cascade.pc = "idle"
  /\ \/ \E actor \in Students :
          /\ responses = <<>>
          /\ PostQuestion(actor, ValidQuestion.courseId, ValidQuestion.title,
                          ValidQuestion.content, ValidQuestion.isAnonymous)
     \/ \E actor \in Students, id \in QuestionIds :
          /\ \A r \in DOMAIN responses : ~responses[r].isHelpful
          /\ PostResponse(actor, id, ValidResponse.content, ValidResponse.isAnonymous, "none")
     \/ \E actor \in Students, id \in DOMAIN responses :
          /\ ~responses[id].isHelpful
          /\ responses[id].questionId \in DOMAIN questions
          /\ questions[responses[id].questionId].posterId = actor
          /\ MarkHelpful(actor, id, Bool(TRUE), "none")
  /\ UNCHANGED served

Next ==
  \/ Tick
  \/ Populate
  \/ Requests({"none"})

Spec == Init /\ [][Next]_vars

---------------------------------------------------------------------------
(* The same, with notification calls that throw *)

NextFault ==
  \/ Tick
  \/ Populate
  \/ Requests({"none", "lookup", "insert"})

SpecFault == Init /\ [][NextFault]_vars

---------------------------------------------------------------------------
(* DELETE /api/questions/:questionId split at its awaits *)

\* the handler up to its first delete: validation, lookup, ownership
CascadeStart(actor, questionId) ==
  LET op == "DeleteQuestion"
      question == getQuestionById(questions, questionId)
  IN
    /\ cascade.pc \in {"idle", "failed"}
    /\ served < MaxRequests \/ cascade.pc = "failed"
    /\ IF ~isValidObjectId(questionId) THEN
         /\ served < MaxRequests
         /\ last' = Reply(op, actor, questionId, 400, "validation")
         /\ served' = served + 1
         /\ UNCHANGED cascade
       ELSE IF question = {} THEN
         /\ served < MaxRequests
         /\ last' = Reply(op, actor, questionId, 404, "Question not found")
         /\ served' = served + 1
         /\ UNCHANGED cascade
       ELSE IF ~IsPoster(questions[questionId], actor) THEN
         /\ served < MaxRequests
         /\ last' = Reply(op, actor, questionId, 403, "You can only delete your own questions")
         /\ served' = served + 1
         /\ UNCHANGED cascade
       ELSE
         /\ cascade' = [pc |-> "responses", actor |-> actor, id |-> questionId, removed |-> 0,
                         failures |-> cascade.failures]
         /\ UNCHANGED <<last, served>>
    /\ UNCHANGED <<questions, responses, notifications, ids, now, students, signup, sessions, pending>>

\* a handler that deletes the question before its responses
CascadeQuestionFirst ==
  /\ cascade.pc = "responses"
  /\ questions' = deleteQuestion(questions, cascade.id).questions
  /\ cascade' = [cascade EXCEPT !.pc = "notifications", !.removed = @ + 1]
  /\ UNCHANGED <<responses, notifications, ids, now, students, signup, sessions, pending, last, served>>

\* await deleteResponsesByQuestionId(questionId)
CascadeResponses ==
  LET res == deleteResponsesByQuestionId(responses, cascade.id) IN
    /\ cascade.pc = "responses"
    /\ responses' = res.responses
    /\ cascade' = [cascade EXCEPT !.pc = "notifications",
          !.removed = @ + Cardinality(DOMAIN responses \ DOMAIN res.responses)]
    /\ UNCHANGED <<questions, notifications, ids, now, students, signup, sessions, pending, last, served>>

\* await deleteNotificationsByQuestionId(questionId)
CascadeNotifications ==
  LET res == deleteNotificationsByQuestionId(notifications, cascade.id) IN
    /\ cascade.pc = "notifications"
    /\ notifications' = res.notifications
    /\ cascade' = [cascade EXCEPT !.pc = "question",
          !.removed = @ + Cardinality(DOMAIN notifications \ DOMAIN res.notifications)]
    /\ UNCHANGED <<questions, responses, ids, now, students, signup, sessions, pending, last, served>>

\* await deleteQuestion(questionId), and the reply
CascadeQuestion ==
  LET res == deleteQuestion(questions, cascade.id) IN
    /\ cascade.pc = "question"
    /\ IF res.err # "" THEN
         /\ last' = Reply("DeleteQuestion", cascade.actor, cascade.id, 500, res.err)
         /\ cascade' = [cascade EXCEPT !.pc = "failed"]
         /\ UNCHANGED questions
       ELSE
         /\ questions' = res.questions
         /\ last' = Reply("DeleteQuestion", cascade.actor, cascade.id, 200, "")
         /\ cascade' = [cascade EXCEPT !.pc = "done"]
    /\ UNCHANGED <<responses, notifications, ids, now, students, signup, sessions, pending, served>>

\* the awaited database call rejects: catch (error) { next(error) }, the reply is 500
CascadeFail ==
  /\ cascade.pc \in {"responses", "notifications", "question"}
  /\ cascade.failures < MaxFailures
  /\ last' = Reply("DeleteQuestion", cascade.actor, cascade.id, 500, "database")
  /\ cascade' = [cascade EXCEPT !.pc = "failed", !.failures = @ + 1]
  /\ UNCHANGED <<questions, responses, notifications, ids, now, students, signup, sessions, pending, served>>

\* the requests that run while the question-delete handler is at an await
Concurrent ==
  /\ cascade.pc \in {"responses", "notifications", "question"}
  /\ \/ \E actor \in Students, id \in QuestionIds :
          Serve(PostResponse(actor, id, ValidResponse.content, ValidResponse.isAnonymous, "none"))
     \/ \E actor \in Students, id \in ResponseIds, isHelpful \in {Bool(TRUE), Bool(FALSE)} :
          Serve(MarkHelpful(actor, id, isHelpful, "none"))
     \/ \E actor \in Students, id \in ResponseIds :
          Serve(DeleteResponse(actor, id))

NextCascade ==
  \/ Tick
  \/ Populate
  \/ Concurrent
  \/ \E actor \in Students, id \in QuestionIds \cup {MalformedId} : CascadeStart(actor, id)
  \/ CascadeResponses
  \/ CascadeNotifications
  \/ CascadeQuestion
  \/ CascadeFail

SpecCascade == Init /\ [][NextCascade]_vars

---------------------------------------------------------------------------
(* DELETE /api/questions/:questionId that fails at an await and is sent
   again, other requests being served between the two attempts *)

\* deleteMany rejects after it deleted some of the documents it matched
CascadePartial ==
  /\ cascade.failures < MaxFailures
  /\ \/ /\ cascade.pc = "responses"
        /\ \E gone \in SUBSET {r \in DOMAIN responses : responses[r].questionId = cascade.id} :
             /\ gone # {}
             /\ responses' = Without(responses, gone)
        /\ UNCHANGED notifications
     \/ /\ cascade.pc = "notifications"
        /\ \E gone \in SUBSET {n \in DOMAIN notifications :
                                 notifications[n].questionId = cascade.id} :
             /\ gone # {}
             /\ notifications' = Without(notifications, gone)
        /\ UNCHANGED responses
  /\ last' = Reply("DeleteQuestion", cascade.actor, cascade.id, 500, "database")
  /\ cascade' = [cascade EXCEPT !.pc = "failed", !.failures = @ + 1]
  /\ UNCHANGED <<questions, ids, now, students, signup, sessions, pending, served>>

\* the requests served after the failed attempt replied
Between ==
  /\ cascade.pc = "failed"
  /\ \/ \E actor \in Students, id \in QuestionIds :
          Serve(PostResponse(actor, id, ValidResponse.content, ValidResponse.isAnonymous, "none"))
     \/ \E actor \in Students, id \in ResponseIds, isHelpful \in {Bool(TRUE), Bool(FALSE)} :
          Serve(MarkHelpful(actor, id, isHelpful, "none"))
     \/ \E actor \in Students, id \in ResponseIds :
          Serve(DeleteResponse(actor, id))

NextRetry ==
  \/ Tick
  \/ Populate
  \/ Between
  \/ \E actor \in Students, id \in QuestionIds \cup {MalformedId} : CascadeStart(actor, id)
  \/ CascadeResponses
  \/ CascadeNotifications
  \/ CascadeQuestion
  \/ CascadeFail
  \/ CascadePartial

SpecRetry == Init /\ [][NextRetry]_vars

---------------------------------------------------------------------------
(* The update and delete handlers split at their awaits: a request in flight
   is [op, actor, id, body, pc, status, order], pc the await it is at
   ("check": the lookup of the document, "write": the first write,
   "notifications" and "question": the later writes of the question delete,
   "done": it replied). order is the rank of its reply among the replies *)

InFlight(op, actor, id, body, valid) ==
  [op |-> op, actor |-> actor, id |-> id, body |-> body,
   pc |-> IF valid THEN "check" ELSE "done",
   status |-> IF valid THEN 0 ELSE 400, order |-> 0]

\* the handler up to its first await: the validators and the sanitizers
Arrive(op, actor, id, body) ==
  LET valid == CASE op = "PatchQuestion" -> PatchQuestionValid(id, body)
                 [] op = "PatchResponse" -> PatchResponseValid(id, body)
                 [] OTHER -> isValidObjectId(id)
      updates == CASE op = "PatchQuestion" -> Sanitize(Sanitize(body, "title"), "content")
                   [] op = "PatchResponse" -> Sanitize(body, "content")
                   [] OTHER -> body
  IN
    /\ Len(pending) < MaxPending
    /\ pending' = Append(pending, InFlight(op, actor, id, updates, valid))
    /\ UNCHANGED <<store, ids, now, last, cascade, served, students, signup, sessions>>

\* res.status(status).json(...) of the request in flight i
Finish(i, status, error) ==
  /\ pending' = [pending EXCEPT ![i].pc = "done", ![i].status = status,
                                ![i].order = served + 1]
  /\ served' = served + 1
  /\ last' = Reply(pending[i].op, pending[i].actor, pending[i].id, status, error)

\* await getQuestionById / getResponseById, and the ownership test
Lookup(i) ==
  LET rq == pending[i]
      onQuestion == rq.op \in {"PatchQuestion", "DeleteQuestion"}
      found == IF onQuestion THEN rq.id \in DOMAIN questions ELSE rq.id \in DOMAIN responses
      doc == IF onQuestion THEN questions[rq.id] ELSE responses[rq.id]
      what == IF onQuestion THEN "Question" ELSE "Response"
      verb == IF rq.op \in {"PatchQuestion", "PatchResponse"} THEN "edit" ELSE "delete"
      own == IF onQuestion THEN "questions" ELSE "responses"
  IN
    /\ rq.pc = "check"
    /\ IF ~found THEN Finish(i, 404, what \o " not found")
       ELSE IF ~IsPoster(doc, rq.actor)
         THEN Finish(i, 403, "You can only " \o verb \o " your own " \o own)
       ELSE /\ pending' = [pending EXCEPT ![i].pc = "write"]
            /\ UNCHANGED <<last, served>>
    /\ UNCHANGED <<store, ids, now, cascade, students, signup, sessions>>

\* await updateQuestion / updateResponse / deleteResponse /
\* deleteResponsesByQuestionId
Write(i) ==
  LET rq == pending[i]
      uq == updateQuestion(questions, rq.id, rq.body, now)
      ur == updateResponse(responses, rq.id, rq.body, now)
      dr == deleteResponse(responses, rq.id)
      dq == deleteResponsesByQuestionId(responses, rq.id)
  IN
    /\ rq.pc = "write"
    /\ CASE rq.op = "PatchQuestion" ->
              /\ questions' = uq.questions
              /\ Finish(i, IF uq.err = "" THEN 200 ELSE 500, uq.err)
              /\ UNCHANGED <<responses, notifications>>
         [] rq.op = "PatchResponse" ->
              /\ responses' = ur.responses
              /\ Finish(i, IF ur.err = "" THEN 200 ELSE 500, ur.err)
              /\ UNCHANGED <<questions, notifications>>
         [] rq.op = "DeleteResponse" ->
              /\ responses' = dr.responses
              /\ Finish(i, IF dr.err = "" THEN 200 ELSE 500, dr.err)
              /\ UNCHANGED <<questions, notifications>>
         [] rq.op = "DeleteQuestion" ->
              /\ responses' = dq.responses
              /\ pending' = [pending EXCEPT ![i].pc = "notifications"]
              /\ UNCHANGED <<questions, notifications, last, served>>
    /\ UNCHANGED <<ids, now, cascade, students, signup, sessions>>

\* await deleteNotificationsByQuestionId, then await deleteQuestion
WriteOn(i) ==
  LET rq == pending[i]
      dn == deleteNotificationsByQuestionId(notifications, rq.id)
      dq == deleteQuestion(questions, rq.id)
  IN
    /\ \/ /\ rq.pc = "notifications"
          /\ notifications' = dn.notifications
          /\ pending' = [pending EXCEPT ![i].pc = "question"]
          /\ UNCHANGED <<questions, last, served>>
       \/ /\ rq.pc = "question"
          /\ questions' = dq.questions
          /\ Finish(i, IF dq.err = "" THEN 200 ELSE 500, dq.err)
          /\ UNCHANGED notifications
    /\ UNCHANGED <<responses, ids, now, cascade, students, signup, sessions>>

PendingQuestionBodies ==
  { <<KV("title", Str(<<"t", "2", " ">>))>>,
    <<KV("title", Str(<<"t", "3">>)), KV("isResolved", Bool(TRUE))>>,
    <<KV("content", Str(<<"c", "2">>)), KV("posterId", Id(2))>> }

PendingResponseBodies ==
  { <<KV("content", Str(<<"r", "2", " ">>))>>,
    <<KV("content", Str(<<"r", "3">>)), KV("isHelpful", Bool(TRUE))>> }

Arrivals ==
  \/ \E actor \in Students, id \in DOMAIN questions, body \in PendingQuestionBodies :
       Arrive("PatchQuestion", actor, id, body)
  \/ \E actor \in Students, id \in DOMAIN questions :
       Arrive("DeleteQuestion", actor, id, <<>>)
  \/ \E actor \in Students, id \in DOMAIN responses, body \in PendingResponseBodies :
       Arrive("PatchResponse", actor, id, body)
  \/ \E actor \in Students, id \in DOMAIN responses :
       Arrive("DeleteResponse", actor, id, <<>>)

\* the traffic before the requests in flight
PopulateBefore ==
  /\ pending = <<>>
  /\ Populate
  /\ Cardinality(DOMAIN questions') <= MaxPendingQuestions

\* time passes while requests are in flight
TickPending ==
  /\ pending # <<>>
  /\ now < MaxTime
  /\ now' = now + 1
  /\ UNCHANGED <<store, ids, last, cascade, served, students, signup, sessions, pending>>

NextPending ==
  \/ PopulateBefore
  \/ TickPending
  \/ Arrivals
  \/ \E i \in DOMAIN pending : Lookup(i)
  \/ \E i \in DOMAIN pending : Write(i)
  \/ \E i \in DOMAIN pending : WriteOn(i)

SpecPending == Init /\ [][NextPending]_vars

---------------------------------------------------------------------------
(* The read paths, over stores written earlier *)

\* questions written by createQuestion (and updateQuestion, when resolved):
\* kinds[i] is [posterId, courseId, isAnonymous, isResolved], times[i] the time of the write
RECURSIVE Asked(_, _, _, _)
Asked(qs, kinds, times, i) ==
  IF i > Len(kinds) THEN qs
  ELSE
    LET data == [courseId |-> kinds[i].courseId, posterId |-> kinds[i].posterId,
                 title |-> Str(<<"t">>), content |-> Str(<<"c">>),
                 isAnonymous |-> Bool(kinds[i].isAnonymous)]
        created == createQuestion(qs, i, data, times[i]).questions
        resolved == updateQuestion(created, i, <<KV("isResolved", Bool(TRUE))>>,
                                   times[i]).questions
    IN Asked(IF kinds[i].isResolved THEN resolved ELSE created, kinds, times, i + 1)

\* the stores of up to max questions of the given kinds, all written at time 0
AskedStores(kinds, max) ==
  {Asked(<<>>, ks, [i \in DOMAIN ks |-> 0], 1) :
     ks \in UNION {[1..n -> kinds] : n \in 0..max}}

\* responses written by createResponse at time 0: each of answers is
\* [questionId, posterId, isAnonymous]
RECURSIVE Answered(_, _, _)
Answered(rs, answers, i) ==
  IF i > Len(answers) THEN rs
  ELSE
    LET data == [questionId |-> answers[i].questionId, posterId |-> answers[i].posterId,
                 content |-> Str(<<"r">>), isAnonymous |-> Bool(answers[i].isAnonymous)]
    IN Answered(createResponse(rs, i, data, 0).responses, answers, i + 1)

AnsweredStores(qs, max) ==
  {Answered(<<>>, as, 1) :
     as \in UNION {[1..n -> [questionId : DOMAIN qs, posterId : Students,
                              isAnonymous : BOOLEAN]] : n \in 0..max}}

InitRead ==
  /\ questions \in AskedStores([posterId : Students, courseId : {1},
                                  isAnonymous : BOOLEAN, isResolved : {FALSE}],
                                 MaxQuestions)
  /\ responses \in AnsweredStores(questions, MaxResponses)
  /\ notifications = <<>>
  /\ ids = [q |-> Len(questions) + 1, r |-> Len(responses) + 1, n |-> 1]
  /\ now = 0
  /\ last = NoReply
  /\ cascade = NoCascade
  /\ served = 0
  /\ students = <<>>
  /\ signup = <<>>
  /\ sessions = NoSessions
  /\ pending = <<>>

Reads ==
  \/ \E actor \in Students, id \in QuestionIds \cup {MalformedId} :
       Serve(GetQuestion(actor, id))
  \/ \E actor \in Students, id \in Courses \cup {MalformedId}, sort \in SortInputs :
       Serve(ListQuestions(actor, id, sort))
  \/ \E actor \in Students, id \in QuestionIds \cup {MalformedId}, sort \in SortInputs :
       Serve(ListResponses(actor, id, sort))

NextRead == Reads

SpecRead == InitRead /\ [][NextRead]_vars

---------------------------------------------------------------------------
(* Listings of a store whose questions were asked over the last hours *)

\* the hours at which the questions were asked, and of the listing
ListTimes == {0, 6, 30}

ListNow == {30, 31}

ListKinds ==
  [posterId : {1}, courseId : Courses, isAnonymous : {FALSE}, isResolved : BOOLEAN]

InitList ==
  /\ \E n \in 0..MaxListed : \E kinds \in [1..n -> ListKinds], times \in [1..n -> ListTimes] :
       /\ \A i, j \in 1..n : i < j => times[i] <= times[j]
       /\ questions = Asked(<<>>, kinds, times, 1)
  /\ responses = <<>>
  /\ notifications = <<>>
  /\ ids = [q |-> Len(questions) + 1, r |-> 1, n |-> 1]
  /\ now \in ListNow
  /\ last = NoReply
  /\ cascade = NoCascade
  /\ served = 0
  /\ students = <<>>
  /\ signup = <<>>
  /\ sessions = NoSessions
  /\ pending = <<>>

Listings ==
  \/ \E actor \in Students, id \in Courses \cup {MalformedId}, sort \in SortInputs :
       Serve(ListQuestions(actor, id, sort))
  \/ \E actor \in Students :
       Serve(ListCourses(actor))

NextList == Listings

SpecList == InitList /\ [][NextList]_vars

---------------------------------------------------------------------------
(* Concurrent calls of createStudent: a call is at "check" before its
   findOne, at "insert" before its insertOne, and ends "done" or "failed" *)

StudentInputs ==
  LET ok == [firstName |-> Str(<<"J">>),
             universityEmail |-> Str(<<"j">> \o StevensDomain),
             age |-> Num(20)]
  IN { ok,
       [ok EXCEPT !.universityEmail = Str(<<"J">> \o StevensDomain)],
       [ok EXCEPT !.universityEmail = Str(<<" ", "j">> \o StevensDomain)],
       [ok EXCEPT !.universityEmail = Str(<<"k">> \o StevensDomain)],
       [ok EXCEPT !.universityEmail = Str(<<"j", "@", "x", ".", "e", "d", "u">>)],
       [ok EXCEPT !.universityEmail = Str(<<"j", "@">> \o StevensDomain)],
       [ok EXCEPT !.firstName = Str(Long(MaxNameLen + 1))],
       [ok EXCEPT !.age = Num(MaxAge + 1)],
       [ok EXCEPT !.age = Num(MinAge - 1)] }

\* a call of createStudent runs to its first await
SignupStart ==
  /\ Len(signup) < MaxSignups
  /\ \E data \in StudentInputs :
       LET valid == StudentValidation(data) IN
         signup' = Append(signup,
                     [pc |-> IF valid.err # "" THEN "failed" ELSE "check",
                      err |-> valid.err, data |-> data,
                      universityEmail |-> valid.universityEmail])
  /\ UNCHANGED <<store, ids, now, last, cascade, served, students, sessions, pending>>

\* its findOne answers
SignupCheck ==
  /\ \E call \in DOMAIN signup :
       /\ signup[call].pc = "check"
       /\ signup' = [signup EXCEPT ![call] =
            IF ExistingStudent(students, signup[call].universityEmail) # {}
              THEN [@ EXCEPT !.pc = "failed",
                             !.err = "A student with this email already exists"]
              ELSE [@ EXCEPT !.pc = "insert"]]
  /\ UNCHANGED <<store, ids, now, last, cascade, served, students, sessions, pending>>

\* its insertOne answers
SignupInsert ==
  /\ \E call \in DOMAIN signup :
       /\ signup[call].pc = "insert"
       /\ students' = InsertStudent(students, signup[call].data,
                                    signup[call].universityEmail)
       /\ signup' = [signup EXCEPT ![call].pc = "done"]
  /\ UNCHANGED <<store, ids, now, last, cascade, served, sessions, pending>>

NextSignup ==
  \/ SignupStart
  \/ SignupCheck
  \/ SignupInsert

SpecSignup == Init /\ [][NextSignup]_vars

---------------------------------------------------------------------------
(* One question from its creation to its deletion: asked by a student,
   answered by another, the answer marked helpful, the question resolved
   and deleted by its asker *)

ScenarioStep(k, Handler) ==
  /\ served = k
  /\ Handler
  /\ served' = served + 1

Elapse ==
  /\ now < MaxTime
  /\ now' = now + 1
  /\ UNCHANGED <<questions, responses, notifications, ids, last, cascade, served,
                 students, signup, sessions, pending>>

Scenario ==
  \/ \E asker \in Students, isAnonymous \in {Undefined, Bool(TRUE), Bool(FALSE)} :
       ScenarioStep(0, PostQuestion(asker, ValidQuestion.courseId, ValidQuestion.title,
                                    ValidQuestion.content, isAnonymous))
  \/ \E responder \in Students, isAnonymous \in {Undefined, Bool(TRUE), Bool(FALSE)} :
       ScenarioStep(1, /\ responder # questions[1].posterId
                       /\ PostResponse(responder, 1, ValidResponse.content,
                                       isAnonymous, "none"))
  \/ ScenarioStep(2, MarkHelpful(questions[1].posterId, 1, Bool(TRUE), "none"))
  \/ ScenarioStep(3, PatchQuestion(questions[1].posterId, 1,
                                   <<KV("isResolved", Bool(TRUE))>>))
  \/ ScenarioStep(4, DeleteQuestion(questions[1].posterId, 1))

NextScenario ==
  \/ Elapse
  \/ Scenario

SpecScenario == Init /\ [][NextScenario]_vars

---------------------------------------------------------------------------
(* The routes behind requireAuth, for requests with and without a session *)

\* req.session.student of a request that carries no session
NoSession == 0

Sessions == Students \cup {NoSession}

\* a requireAuth that lets every request through
requireAuthAlways(session) == TRUE

\* the guard of requireAuth: req.session && req.session.student
requireAuth(session) == session # NoSession

\* router.<method>(path, requireAuth, ..., handler)
Route(session, op, id, Handler) ==
  IF requireAuth(session) THEN Handler
  ELSE /\ last' = Reply(op, session, id, 401, "Authentication required. Please log in.")
       /\ UNCHANGED <<store, ids, now, students, signup, sessions, pending, cascade>>

\* one more request is served, max at most
ServeUpTo(max, Handler) ==
  /\ served < max
  /\ Handler
  /\ served' = served + 1

\* every route behind requireAuth, for a request whose session is one of S
RoutedRequests(S, max) ==
  \/ \E session \in S :
       ServeUpTo(max, Route(session, "ListCourses", 0, ListCourses(session)))
  \/ \E session \in S, id \in Given(Courses) :
       ServeUpTo(max, Route(session, "GetCourse", id, GetCourse(session, id)))
  \/ \E session \in S, id \in Given(Courses), sort \in {Undefined, Str(<<"oldest">>)} :
       ServeUpTo(max, Route(session, "ListQuestions", id, ListQuestions(session, id, sort)))
  \/ \E session \in S, id \in Given(QuestionIds) :
       ServeUpTo(max, Route(session, "GetQuestion", id, GetQuestion(session, id)))
  \/ \E session \in S :
       ServeUpTo(max, Route(session, "PostQuestion", 0,
                   PostQuestion(session, ValidQuestion.courseId, ValidQuestion.title,
                                ValidQuestion.content, ValidQuestion.isAnonymous)))
  \/ \E session \in S, id \in Given(QuestionIds) :
       ServeUpTo(max, Route(session, "PatchQuestion", id,
                   PatchQuestion(session, id, <<KV("isResolved", Bool(TRUE))>>)))
  \/ \E session \in S, id \in Given(QuestionIds) :
       ServeUpTo(max, Route(session, "DeleteQuestion", id, DeleteQuestion(session, id)))
  \/ \E session \in S, id \in Given(QuestionIds), sort \in {Undefined, Str(<<"oldest">>)} :
       ServeUpTo(max, Route(session, "ListResponses", id, ListResponses(session, id, sort)))
  \/ \E session \in S, id \in Given(QuestionIds) :
       ServeUpTo(max, Route(session, "PostResponse", id,
                   PostResponse(session, id, ValidResponse.content,
                                ValidResponse.isAnonymous, "none")))
  \/ \E session \in S, id \in Given(ResponseIds) :
       ServeUpTo(max, Route(session, "PatchResponse", id,
                   PatchResponse(session, id, <<KV("content", Str(<<"r", "2">>))>>)))
  \/ \E session \in S, id \in Given(ResponseIds) :
       ServeUpTo(max, Route(session, "DeleteResponse", id, DeleteResponse(session, id)))
  \/ \E session \in S, id \in Given(ResponseIds) :
       ServeUpTo(max, Route(session, "MarkHelpful", id, MarkHelpful(session, id, Bool(TRUE), "none")))
  \/ \E session \in S, unreadOnly \in {Undefined, Str(<<"f", "a", "l", "s", "e">>),
                                               Str(<<"x">>)} :
       ServeUpTo(max, Route(session, "GetNotifications", 0, GetNotifications(session, unreadOnly)))
  \/ \E session \in S, id \in Given(NotificationIds) :
       ServeUpTo(max, Route(session, "MarkRead", id, MarkRead(session, id)))
  \/ \E session \in S :
       ServeUpTo(max, Route(session, "MarkAllRead", 0, MarkAllRead(session)))

AuthRequests == RoutedRequests(Sessions, MaxRequests)

NextAuth ==
  \/ Tick
  \/ Populate
  \/ AuthRequests

SpecAuth == Init /\ [][NextAuth]_vars

---------------------------------------------------------------------------
(* The data functions called directly, as the data tests call them *)

\* a call and its outcome; id: the id it was given, MalformedId when a
\* reference id of a create is
Call(op, id, res, qs, rs, ns) ==
  [op |-> op, id |-> id, err |-> res.err, questions |-> qs, responses |-> rs,
   notifications |-> ns]

Reference(refs, id) == IF MalformedId \in refs THEN MalformedId ELSE id

QuestionCalls ==
  {LET res == createQuestion(questions, ids.q,
                [courseId |-> c, posterId |-> p, title |-> ValidQuestion.title,
                 content |-> ValidQuestion.content, isAnonymous |-> Bool(FALSE)], now)
   IN Call("createQuestion", Reference({c, p}, ids.q), res, res.questions,
           responses, notifications) : c \in Given(Courses), p \in Given(Students)}
  \cup
  {LET res == QuestionById(questions, id)
   IN Call("getQuestionById", id, res, questions, responses, notifications) :
     id \in Given(QuestionIds)}
  \cup
  {LET res == getQuestionsByCourseId(questions, id, <<"newest">>)
   IN Call("getQuestionsByCourseId", id, res, questions, responses, notifications) :
     id \in Given(Courses)}
  \cup
  {LET res == getNewQuestionCountsByCourseIds(questions, <<1, id>>, now)
   IN Call("getNewQuestionCountsByCourseIds", id, res, questions, responses, notifications) :
     id \in Given(Courses)}
  \cup
  {LET res == updateQuestion(questions, id, <<KV("isResolved", Bool(TRUE))>>, now)
   IN Call("updateQuestion", id, res, res.questions, responses, notifications) :
     id \in Given(QuestionIds)}
  \cup
  {LET res == deleteQuestion(questions, id)
   IN Call("deleteQuestion", id, res, res.questions, responses, notifications) :
     id \in Given(QuestionIds)}

ResponseCalls ==
  {LET res == createResponse(responses, ids.r,
                [questionId |-> q, posterId |-> p, content |-> ValidResponse.content,
                 isAnonymous |-> Bool(FALSE)], now)
   IN Call("createResponse", Reference({q, p}, ids.r), res, questions,
           res.responses, notifications) : q \in Given(QuestionIds), p \in Given(Students)}
  \cup
  {LET res == getResponseById(responses, id)
   IN Call("getResponseById", id, res, questions, responses, notifications) :
     id \in Given(ResponseIds)}
  \cup
  {LET res == getResponsesByQuestionId(responses, id, <<"newest">>)
   IN Call("getResponsesByQuestionId", id, res, questions, responses, notifications) :
     id \in Given(QuestionIds)}
  \cup
  {LET res == updateResponse(responses, id, <<KV("isHelpful", Bool(TRUE))>>, now)
   IN Call("updateResponse", id, res, questions, res.responses, notifications) :
     id \in Given(ResponseIds)}
  \cup
  {LET res == deleteResponse(responses, id)
   IN Call("deleteResponse", id, res, questions, res.responses, notifications) :
     id \in Given(ResponseIds)}
  \cup
  {LET res == deleteResponsesByQuestionId(responses, id)
   IN Call("deleteResponsesByQuestionId", id, res, questions, res.responses, notifications) :
     id \in Given(QuestionIds)}

NotificationCalls ==
  {LET res == createNotification(notifications, ids.n,
                [recipientId |-> to, questionId |-> q, senderId |-> from,
                 type |-> Str(<<"new_response">>), message |-> Str(<<"m">>)], now)
   IN Call("createNotification", Reference({to, q, from}, ids.n), res, questions,
           responses, res.notifications) :
     to \in Given(Students), q \in Given(QuestionIds), from \in Given(Students)}
  \cup
  {LET res == getNotificationById(notifications, id)
   IN Call("getNotificationById", id, res, questions, responses, notifications) :
     id \in Given(NotificationIds)}
  \cup
  {LET res == getNotificationsByStudentId(notifications, id, unreadOnly)
   IN Call("getNotificationsByStudentId", id, res, questions, responses, notifications) :
     id \in Given(Students), unreadOnly \in BOOLEAN}
  \cup
  {LET res == markNotificationAsRead(notifications, id)
   IN Call("markNotificationAsRead", id, res, questions, responses, res.notifications) :
     id \in Given(NotificationIds)}
  \cup
  {LET res == markAllNotificationsAsRead(notifications, id)
   IN Call("markAllNotificationsAsRead", id, res, questions, responses, res.notifications) :
     id \in Given(Students)}
  \cup
  {LET res == getUnreadNotificationCount(notifications, id)
   IN Call("getUnreadNotificationCount", id, res, questions, responses, notifications) :
     id \in Given(Students)}
  \cup
  {LET res == deleteNotification(notifications, id)
   IN Call("deleteNotification", id, res, questions, responses, res.notifications) :
     id \in Given(NotificationIds)}
  \cup
  {LET res == deleteNotificationsByQuestionId(notifications, id)
   IN Call("deleteNotificationsByQuestionId", id, res, questions, responses,
           res.notifications) : id \in Given(QuestionIds)}

\* the call is made: the store is what the function left, and an insert
\* used up an id
DataCall(call) ==
  LET used == [q |-> IF DOMAIN call.questions \subseteq DOMAIN questions THEN 0 ELSE 1,
               r |-> IF DOMAIN call.responses \subseteq DOMAIN responses THEN 0 ELSE 1,
               n |-> IF DOMAIN call.notifications \subseteq DOMAIN notifications THEN 0 ELSE 1]
  IN
    /\ ids.q + used.q <= MaxQuestions + 1
    /\ ids.r + used.r <= MaxResponses + 1
    /\ ids.n + used.n <= MaxNotifications + 1
    /\ questions' = call.questions
    /\ responses' = call.responses
    /\ notifications' = call.notifications
    /\ ids' = [q |-> ids.q + used.q, r |-> ids.r + used.r, n |-> ids.n + used.n]
    /\ last' = [NoReply EXCEPT !.op = call.op, !.id = call.id, !.error = call.err]
    /\ UNCHANGED <<now, students, signup, sessions, pending, cascade>>

DataCalls ==
  \/ \E call \in QuestionCalls : Serve(DataCall(call))
  \/ \E call \in ResponseCalls : Serve(DataCall(call))
  \/ \E call \in NotificationCalls : Serve(DataCall(call))

NextData ==
  \/ Populate
  \/ DataCalls

SpecData == Init /\ [][NextData]_vars

---------------------------------------------------------------------------
(* Several requests in a row on the notifications of a populated store *)

ServeInbox(Handler) ==
  /\ served < MaxInboxRequests
  /\ Handler
  /\ served' = served + 1

InboxRequests ==
  \/ \E actor \in Students, id \in NotificationIds \cup {MalformedId} :
       ServeInbox(MarkRead(actor, id))
  \/ \E actor \in Students :
       ServeInbox(MarkAllRead(actor))
  \/ \E actor \in Students, id \in DOMAIN questions :
       ServeInbox(PostResponse(actor, id, ValidResponse.content,
                               ValidResponse.isAnonymous, "none"))
  \/ \E actor \in Students, id \in DOMAIN responses :
       ServeInbox(MarkHelpful(actor, id, Bool(TRUE), "none"))
  \/ \E actor \in Students, id \in DOMAIN questions :
       ServeInbox(DeleteQuestion(actor, id))

NextInbox ==
  \/ Tick
  \/ Populate
  \/ InboxRequests

SpecInbox == Init /\ [][NextInbox]_vars

---------------------------------------------------------------------------
(* Several requests in a row on the questions of a populated store *)

ServeResolve(Handler) ==
  /\ served < MaxResolveRequests
  /\ Handler
  /\ served' = served + 1

ResolveBodies ==
  { <<KV("isResolved", Bool(TRUE))>>,
    <<KV("isResolved", Bool(FALSE))>>,
    <<KV("isResolved", True)>>,
    <<KV("title", Str(<<"t", "2">>)), KV("isResolved", Bool(TRUE))>> }

ResolveRequests ==
  \/ \E actor \in Students :
       ServeResolve(PostQuestion(actor, ValidQuestion.courseId, ValidQuestion.title,
                                 ValidQuestion.content, ValidQuestion.isAnonymous))
  \/ \E actor \in Students, id \in QuestionIds, body \in ResolveBodies :
       ServeResolve(PatchQuestion(actor, id, body))
  \/ \E actor \in Students, id \in DOMAIN questions :
       ServeResolve(DeleteQuestion(actor, id))
  \/ \E actor \in Students, id \in DOMAIN questions :
       ServeResolve(PostResponse(actor, id, ValidResponse.content,
                                 ValidResponse.isAnonymous, "none"))
  \/ \E actor \in Students, id \in DOMAIN responses :
       ServeResolve(MarkHelpful(actor, id, Bool(TRUE), "none"))

NextResolve ==
  \/ Populate
  \/ ResolveRequests

SpecResolve == Init /\ [][NextResolve]_vars

---------------------------------------------------------------------------
(* Login, logout and the session check, with the session store of
   express-session: a request's cookie is the id of a session, or NoCookie *)

NoCookie == 0

\* the cookies a client can send: none, or the id of a session issued earlier
Cookies == 0..sessions.issued

\* bcrypt.hash
Hash(password) == [bcrypt |-> password]

\* bcrypt.compare
compare(password, hashedPassword) == Hash(password) = hashedPassword

Email(local) == local \o StevensDomain

\* the students collection the logins run against, by _id
Accounts ==
  <<[firstName |-> FirstName(1), universityEmail |-> Email(<<"a">>), age |-> 20,
     hashedPassword |-> Hash(<<"p">>)],
    [firstName |-> FirstName(2), universityEmail |-> Email(<<"b">>), age |-> 21,
     hashedPassword |-> Hash(<<"q">>)]>>

\* getStudentByEmail: [err, student], student the set of matching _ids
getStudentByEmail(ss, email) ==
  LET validEmail == validateString(Str(email), "Email", 1, MaxStringLen) IN
    IF validEmail.err # "" THEN [err |-> validEmail.err, student |-> {}]
    ELSE IF ~isValidStevensEmail(validEmail.value)
      THEN [err |-> "Email must be a valid @stevens.edu address", student |-> {}]
    ELSE [err |-> "",
          student |-> {i \in DOMAIN ss :
                         ss[i].universityEmail = toLowerCase(validEmail.value)}]

\* req.session.student of the request that carries the cookie: the session
\* middleware loads the stored session, or starts an empty one
SessionStudent(cookie) ==
  IF cookie \in DOMAIN sessions.store THEN sessions.store[cookie].student ELSE NoSession

\* the store after the response of a request that set req.session.student:
\* [sid, sessions]. A stored session is saved under its id; a new one is
\* saved under a fresh id
SaveSession(ss, cookie, student) ==
  LET sid == IF cookie \in DOMAIN ss.store THEN cookie ELSE ss.issued + 1 IN
    [sid |-> sid,
     sessions |-> [issued |-> IF sid > ss.issued THEN sid ELSE ss.issued,
                   store |-> [c \in DOMAIN ss.store \cup {sid} |->
                                IF c = sid THEN [student |-> student] ELSE ss.store[c]]]]

\* a destroy that leaves the session in the store
DestroySessionKept(ss, cookie) == ss

\* req.session.destroy: the session is removed from the store
DestroySession(ss, cookie) ==
  [ss EXCEPT !.store = [c \in DOMAIN ss.store \ {cookie} |-> ss.store[c]]]

\* POST /api/auth/login
Login(cookie, universityEmail, password) ==
  LET op == "Login"
      normalized == toLowerCase(universityEmail)
      valid == /\ isValidEmail(universityEmail)
               /\ EndsWith(normalized, StevensDomain)
               /\ Trim(password) # <<>>
      found == getStudentByEmail(students, normalized)
      student == CHOOSE i \in found.student : TRUE
      saved == SaveSession(sessions, cookie, student)
  IN
    /\ IF ~valid
         THEN /\ last' = Reply(op, NoSession, cookie, 400, "Validation failed")
              /\ UNCHANGED sessions
       ELSE IF found.err # ""
         THEN /\ last' = Reply(op, NoSession, cookie, 500, found.err)
              /\ UNCHANGED sessions
       ELSE IF found.student = {}
         THEN /\ last' = Reply(op, NoSession, cookie, 401, "Invalid email or password")
              /\ UNCHANGED sessions
       ELSE IF ~compare(Trim(password), students[student].hashedPassword)
         THEN /\ last' = Reply(op, NoSession, cookie, 401, "Invalid email or password")
              /\ UNCHANGED sessions
       ELSE /\ sessions.issued < MaxSessions \/ cookie \in DOMAIN sessions.store
            /\ last' = Reply(op, student, saved.sid, 200, "")
            /\ sessions' = saved.sessions
    /\ UNCHANGED <<store, ids, now, students, signup, cascade, pending>>

\* POST /api/auth/logout
Logout(cookie) ==
  LET op == "Logout" IN
    /\ IF ~requireAuth(SessionStudent(cookie))
         THEN /\ last' = Reply(op, NoSession, cookie, 401,
                               "Authentication required. Please log in.")
              /\ UNCHANGED sessions
       ELSE /\ last' = Reply(op, SessionStudent(cookie), cookie, 200, "")
            /\ sessions' = DestroySession(sessions, cookie)
    /\ UNCHANGED <<store, ids, now, students, signup, cascade, pending>>

\* GET /api/auth/check
CheckSession(cookie) ==
  /\ last' = [Reply("CheckSession", SessionStudent(cookie), cookie, 200, "")
                EXCEPT !.body = <<[loggedIn |-> SessionStudent(cookie) # NoSession]>>]
  /\ UNCHANGED <<store, ids, now, students, signup, cascade, sessions, pending>>

ServeSession(Handler) ==
  /\ served < MaxSessionRequests
  /\ Handler
  /\ served' = served + 1

\* the request of a client that sends the cookie to a route behind requireAuth
Protected(cookie) == RoutedRequests({SessionStudent(cookie)}, MaxSessionRequests)

LoginEmails ==
  {Email(<<"a">>), Email(<<"A">>), Email(<<"b">>), Email(<<"x">>), <<"a", "@", "b", ".", "c">>,
   <<"a">>}

LoginPasswords == {<<"p">>, <<" ", "q">>, <<" ">>}

InitSession ==
  /\ questions = <<>>
  /\ responses = <<>>
  /\ notifications = <<>>
  /\ ids = [q |-> 1, r |-> 1, n |-> 1]
  /\ now = 0
  /\ last = NoReply
  /\ cascade = NoCascade
  /\ served = 0
  /\ students = Accounts
  /\ signup = <<>>
  /\ sessions = NoSessions
  /\ pending = <<>>

SessionRequests ==
  \/ \E cookie \in Cookies, universityEmail \in LoginEmails, password \in LoginPasswords :
       ServeSession(Login(cookie, universityEmail, password))
  \/ \E cookie \in Cookies : ServeSession(Logout(cookie))
  \/ \E cookie \in Cookies : ServeSession(CheckSession(cookie))
  \/ \E cookie \in Cookies : Protected(cookie)

NextSession == SessionRequests

SpecSession == InitSession /\ [][NextSession]_vars

---------------------------------------------------------------------------
(* Properties *)

\* the step serves a request: every request that is not rejected writes, and a
\* request under study is counted
Request == served' # served \/ store' # store \/ ids' # ids

\* the poster of the document a PATCH or DELETE names, if the document is stored
Owners(op, id) ==
  IF op \in {"PatchQuestion", "DeleteQuestion"} /\ id \in DOMAIN questions
    THEN {questions[id].posterId}
  ELSE IF op \in {"PatchResponse", "DeleteResponse"} /\ id \in DOMAIN responses
    THEN {responses[id].posterId}
  ELSE {}

\* the step serves an update or delete of a stored document by a student who is
\* not its poster
ByNonPoster ==
  /\ Request
  /\ Owners(last'.op, last'.id) # {}
  /\ last'.actor \notin Owners(last'.op, last'.id)

\* C1 as stated: an update or delete of a stored question or response by a
\* student other than its poster is answered 403 whatever the payload, and the
\* three stores are unchanged.
C1_OwnershipRejection ==
  [][ByNonPoster => last'.status = 403 /\ store' = store]_vars

\* C1, amended: an update or delete of a stored question or response by a student
\* other than its poster leaves the three stores unchanged and is answered 403,
\* unless the body of a PATCH fails the validators of its route: then it is
\* answered 400.
C1_OwnershipRejectionAmended ==
  [][ByNonPoster =>
       /\ store' = store
       /\ last'.op \in {"DeleteQuestion", "DeleteResponse"} => last'.status = 403
       /\ \A body \in QuestionBodies :
            PatchQuestion(last'.actor, last'.id, body) =>
              last'.status = IF PatchQuestionValid(last'.id, body) THEN 403 ELSE 400
       /\ \A body \in ResponseBodies :
            PatchResponse(last'.actor, last'.id, body) =>
              last'.status = IF PatchResponseValid(last'.id, body) THEN 403 ELSE 400]_vars

\* a student who is not the poster was answered 403
C1_Witness ==
  /\ last.status = 403
  /\ Owners(last.op, last.id) # {}
  /\ last.actor \notin Owners(last.op, last.id)

\* C2 as stated: a helpful request on a stored response by a student who is not
\* the poster of the response's question is rejected, and isHelpful keeps its value.
C2_HelpfulOnlyByAsker ==
  [][(/\ Request
      /\ last'.op = "MarkHelpful"
      /\ last'.id \in DOMAIN responses
      /\ \/ responses[last'.id].questionId \notin DOMAIN questions
         \/ questions[responses[last'.id].questionId].posterId # last'.actor)
     => /\ last'.status # 200
        /\ responses' = responses]_vars

\* C3: after the poster's delete of question Q is answered 200, no question Q,
\* no response of Q and no notification of Q is stored, and every other question,
\* response and notification is stored as it was; nothing is added.
C3_CascadeCompleteness ==
  [][(Request /\ last'.op = "DeleteQuestion" /\ last'.status = 200) =>
       LET Q == last'.id IN
         /\ Q \in DOMAIN questions
         /\ Q \notin DOMAIN questions'
         /\ \A r \in DOMAIN responses' : responses'[r].questionId # Q
         /\ \A n \in DOMAIN notifications' : notifications'[n].questionId # Q
         /\ DOMAIN questions' = DOMAIN questions \ {Q}
         /\ \A q \in DOMAIN questions' : questions'[q] = questions[q]
         /\ DOMAIN responses' = {r \in DOMAIN responses : responses[r].questionId # Q}
         /\ \A r \in DOMAIN responses' : responses'[r] = responses[r]
         /\ DOMAIN notifications' =
              {n \in DOMAIN notifications : notifications[n].questionId # Q}
         /\ \A n \in DOMAIN notifications' : notifications'[n] = notifications[n]]_vars

\* a question was deleted with a response and a notification of its own, and a
\* question, a response and a notification remain
C3_Witness ==
  /\ last.op = "DeleteQuestion"
  /\ last.status = 200
  /\ Cardinality(DOMAIN responses) < ids.r - 1
  /\ Cardinality(DOMAIN notifications) < ids.n - 1
  /\ questions # <<>>
  /\ responses # <<>>
  /\ notifications # <<>>

\* C4: a response posted to a stored question adds no notification when the
\* responder is the question's poster, and otherwise exactly one: new_response,
\* to the question's poster, from the responder, of that question, unread. The
\* notifications stored before stay as they were.
C4_ResponseNotificationFanOut ==
  [][(/\ Request
      /\ last'.op = "PostResponse"
      /\ last'.status = 201
      /\ last'.id \in DOMAIN responses'
      /\ responses'[last'.id].questionId \in DOMAIN questions)
     => LET Q == responses'[last'.id].questionId
            new == DOMAIN notifications' \ DOMAIN notifications
        IN
          /\ responses'[last'.id].posterId = last'.actor
          /\ \A n \in DOMAIN notifications :
               n \in DOMAIN notifications' /\ notifications'[n] = notifications[n]
          /\ IF questions[Q].posterId = last'.actor THEN new = {}
             ELSE /\ Cardinality(new) = 1
                  /\ \A n \in new :
                       /\ notifications'[n].type = <<"new_response">>
                       /\ notifications'[n].recipientId = questions[Q].posterId
                       /\ notifications'[n].senderId = last'.actor
                       /\ notifications'[n].questionId = Q
                       /\ notifications'[n].isRead = FALSE]_vars

\* the latest request stored a response to another student's question, and the
\* newest notification tells that student
C4_Witness ==
  /\ last.op = "PostResponse"
  /\ last.status = 201
  /\ last.id = ids.r - 1
  /\ last.id \in DOMAIN responses
  /\ responses[last.id].questionId \in DOMAIN questions
  /\ ids.n - 1 \in DOMAIN notifications
  /\ notifications[ids.n - 1].type = <<"new_response">>
  /\ notifications[ids.n - 1].senderId = last.actor
  /\ notifications[ids.n - 1].recipientId = questions[responses[last.id].questionId].posterId
  /\ notifications[ids.n - 1].recipientId # last.actor

\* C5 as stated: a helpful request that is answered 200 adds exactly one
\* notification (helpful_mark, to the response's poster, from the acting
\* student) when it sets isHelpful to true and the acting student is not the
\* response's poster, and adds none otherwise.
C5_HelpfulNotificationExclusivity ==
  [][(/\ Request
      /\ last'.op = "MarkHelpful"
      /\ last'.status = 200
      /\ last'.id \in DOMAIN responses
      /\ last'.id \in DOMAIN responses')
     => LET response == responses[last'.id]
            new == DOMAIN notifications' \ DOMAIN notifications
        IN
          IF responses'[last'.id].isHelpful /\ response.posterId # last'.actor
            THEN /\ Cardinality(new) = 1
                 /\ \A n \in new :
                      /\ notifications'[n].type = <<"helpful_mark">>
                      /\ notifications'[n].recipientId = response.posterId
                      /\ notifications'[n].senderId = last'.actor
            ELSE new = {}]_vars

\* C6: when the notification lookup or insert throws while a response is posted
\* or marked helpful, the request is still answered with success (201, 200) and
\* the response is stored, respectively marked helpful.
C6_NotificationFailureSwallowed ==
  [][(Request /\ last'.logged # "") =>
       /\ last'.error = ""
       /\ \/ /\ last'.op = "PostResponse"
             /\ last'.status = 201
             /\ last'.id \in DOMAIN responses' \ DOMAIN responses
             /\ responses'[last'.id].posterId = last'.actor
          \/ /\ last'.op = "MarkHelpful"
             /\ last'.status = 200
             /\ last'.id \in DOMAIN responses'
             /\ responses'[last'.id].isHelpful]_vars

\* a helpful mark was stored and answered 200 although its notification failed
C6_Witness ==
  /\ last.logged # ""
  /\ last.op = "MarkHelpful"
  /\ last.status = 200
  /\ responses[last.id].isHelpful
  /\ responses[last.id].posterId # last.actor

\* C7: no stored notification has its sender as its recipient.
C7_NoSelfNotification ==
  \A n \in DOMAIN notifications :
    notifications[n].recipientId # notifications[n].senderId

\* a new_response and a helpful_mark notification are stored
C7_Witness ==
  \E n, m \in DOMAIN notifications :
    /\ notifications[n].type = <<"new_response">>
    /\ notifications[m].type = <<"helpful_mark">>

\* C8 as stated: in no state has the question-delete handler deleted responses or
\* notifications of a question while the question is still stored.
C8_CascadeAtomicity ==
  cascade.removed > 0 => cascade.id \notin DOMAIN questions

\* the errors of the data functions that tell of a missing document
NotFoundErrors == {"Question not found", "Response not found"}

\* C9: updateQuestion with a key outside {title, content, isResolved}, and
\* updateResponse with a key outside {content, isHelpful}, fail with an error
\* about the input and leave the collection as it is, whatever else the call carries.
C9_AllowListEnforcement ==
  /\ \A id \in QuestionIds \cup {MalformedId}, updates \in QuestionBodies :
       ~(Keys(updates) \subseteq {"title", "content", "isResolved"}) =>
         LET res == updateQuestion(questions, id, updates, now) IN
           /\ res.err \notin NotFoundErrors \cup {""}
           /\ res.questions = questions
  /\ \A id \in ResponseIds \cup {MalformedId}, updates \in ResponseBodies :
       ~(Keys(updates) \subseteq {"content", "isHelpful"}) =>
         LET res == updateResponse(responses, id, updates, now) IN
           /\ res.err \notin NotFoundErrors \cup {""}
           /\ res.responses = responses

\* the poster's update of a question last written earlier was refused for its posterId key
C9_Witness ==
  /\ last.op = "PatchQuestion"
  /\ last.error = "Cannot update field: posterId"
  /\ last.id \in DOMAIN questions
  /\ questions[last.id].posterId = last.actor
  /\ questions[last.id].updatedAt < now

\* C10: no step changes posterId, courseId, isAnonymous or createdAt of a stored
\* question, nor posterId, questionId, isAnonymous or createdAt of a stored
\* response; an id is handed out once, so a document keeps them from its creation on.
C10_ImmutableFields ==
  [][/\ \A q \in DOMAIN questions :
          /\ q < ids.q
          /\ q \in DOMAIN questions' =>
               /\ questions'[q].posterId = questions[q].posterId
               /\ questions'[q].courseId = questions[q].courseId
               /\ questions'[q].isAnonymous = questions[q].isAnonymous
               /\ questions'[q].createdAt = questions[q].createdAt
     /\ \A r \in DOMAIN responses :
          /\ r < ids.r
          /\ r \in DOMAIN responses' =>
               /\ responses'[r].posterId = responses[r].posterId
               /\ responses'[r].questionId = responses[r].questionId
               /\ responses'[r].isAnonymous = responses[r].isAnonymous
               /\ responses'[r].createdAt = responses[r].createdAt]_vars

\* a question was updated after its creation
C10_Witness ==
  /\ last.op = "PatchQuestion"
  /\ last.status = 200
  /\ questions[last.id].updatedAt > questions[last.id].createdAt

\* the answers of the three read paths on a store
QuestionReads(qs) ==
  [q \in QuestionIds \cup {MalformedId} |-> getQuestionById(qs, q)]

QuestionListings(qs) ==
  [c \in Courses, sort \in {<<"newest">>, <<"oldest">>, <<"answered">>, <<"unanswered">>}
     |-> getQuestionsByCourseId(qs, c, sort)]

ResponseListings(rs) ==
  [q \in QuestionIds, sort \in {<<"newest">>, <<"oldest">>}
     |-> getResponsesByQuestionId(rs, q, sort)]

\* C11: two stores that differ only in the posterId of an anonymous question
\* or response give the same results on getQuestionById,
\* getQuestionsByCourseId and getResponsesByQuestionId
C11_AnonymousReadsHidePoster ==
  /\ \A q \in DOMAIN questions : \A s \in Students :
       questions[q].isAnonymous =>
         LET other == [questions EXCEPT ![q].posterId = s]
         IN  /\ QuestionReads(other) = QuestionReads(questions)
             /\ QuestionListings(other) = QuestionListings(questions)
  /\ \A r \in DOMAIN responses : \A s \in Students :
       responses[r].isAnonymous =>
         LET other == [responses EXCEPT ![r].posterId = s]
         IN  ResponseListings(other) = ResponseListings(responses)

\* the part of C11 the pipelines do give: the posterName of an anonymous
\* question or response does not depend on its posterId
C11_AnonymousNameMasked ==
  /\ \A q \in DOMAIN questions : \A doc \in getQuestionById(questions, q) :
       questions[q].isAnonymous => doc.posterName = "Anonymous"
  /\ last.op = "GetQuestion" /\ last.status = 200 /\ questions[last.id].isAnonymous
       => last.body.posterName = "Anonymous"

\* C12: markNotificationAsRead twice in a row on an existing notification
\* succeeds both times, gives isRead = true both times, and the second call
\* leaves the store as the first left it; so does a call that follows a
\* served PATCH /api/notifications/:notificationId/read
C12_MarkReadIdempotent ==
  /\ \A n \in DOMAIN notifications :
       LET first == markNotificationAsRead(notifications, n)
           second == markNotificationAsRead(first.notifications, n)
       IN  /\ first.err = ""
           /\ first.notifications[n].isRead
           /\ second.err = ""
           /\ second.notifications[n].isRead
           /\ second.notifications = first.notifications
  /\ last.op = "MarkRead" /\ last.status = 200 =>
       /\ last.id \in DOMAIN notifications
       /\ notifications[last.id].isRead
       /\ markNotificationAsRead(notifications, last.id)
            = [err |-> "", notifications |-> notifications]

\* a notification was marked read by a request while another one is unread
C12_Witness ==
  /\ last.op = "MarkRead"
  /\ last.status = 200
  /\ \E n \in DOMAIN notifications : ~notifications[n].isRead

\* the unread notifications of a recipient
Unread(ns, studentId) ==
  {n \in DOMAIN ns : ns[n].recipientId = studentId /\ ~ns[n].isRead}

\* C13: PATCH /api/notifications/read-all sets isRead on exactly the unread
\* notifications of the recipient, reports as modifiedCount the number of
\* notifications it changed, leaves the recipient no unread notification and
\* changes no other notification
C13_MarkAllReadFrame ==
  [][Request /\ last'.op = "MarkAllRead" =>
       LET unread == Unread(notifications, last'.actor) IN
         /\ last'.status = 200
         /\ DOMAIN notifications' = DOMAIN notifications
         /\ \A n \in DOMAIN notifications :
              notifications'[n] = IF n \in unread
                                    THEN [notifications[n] EXCEPT !.isRead = TRUE]
                                    ELSE notifications[n]
         /\ last'.id = Cardinality({n \in DOMAIN notifications :
                                      notifications'[n] # notifications[n]})
         /\ Unread(notifications', last'.actor) = {}]_vars

\* read-all changed a notification while another recipient has an unread one
C13_Witness ==
  /\ last.op = "MarkAllRead"
  /\ last.id >= 1
  /\ \E n \in DOMAIN notifications :
       notifications[n].recipientId # last.actor /\ ~notifications[n].isRead

\* C14: a step changes nothing of an existing notification but isRead, and
\* isRead only from false to true
C14_NotificationImmutable ==
  [][\A n \in DOMAIN notifications \cap DOMAIN notifications' :
       /\ notifications'[n].recipientId = notifications[n].recipientId
       /\ notifications'[n].questionId = notifications[n].questionId
       /\ notifications'[n].senderId = notifications[n].senderId
       /\ notifications'[n].type = notifications[n].type
       /\ notifications'[n].message = notifications[n].message
       /\ notifications'[n].createdAt = notifications[n].createdAt
       /\ notifications[n].isRead => notifications'[n].isRead]_vars

\* read-all was served for a recipient who had a notification already read
C14_Witness ==
  /\ last.op = "MarkAllRead"
  /\ last.id = 0
  /\ \E n \in DOMAIN notifications :
       notifications[n].recipientId = last.actor /\ notifications[n].isRead

\* the questions of a course, and whether their createdAt are pairwise distinct
OfCourse(c) == {q \in DOMAIN questions : questions[q].courseId = c}

DistinctCreatedAt(c) ==
  \A p, q \in OfCourse(c) : p # q => questions[p].createdAt # questions[q].createdAt

\* the questions a listing of course c under a sort value is to hold
Expected(c, sortOption) ==
  {q \in OfCourse(c) :
     /\ sortOption = <<"answered">> => questions[q].isResolved
     /\ sortOption = <<"unanswered">> => ~questions[q].isResolved}

\* result lists exactly the expected questions, each once, oldest first under
\* "oldest" and newest first under any other sort value
Listed(result, c, sortOption) ==
  /\ Len(result) = Cardinality(Expected(c, sortOption))
  /\ {result[i]._id : i \in DOMAIN result} = Expected(c, sortOption)
  /\ \A i \in DOMAIN result : result[i].courseId = c
  /\ \A i, j \in DOMAIN result :
       i < j => IF sortOption = <<"oldest">>
                  THEN result[i].createdAt < result[j].createdAt
                  ELSE result[i].createdAt > result[j].createdAt

\* C15: for a course whose questions have pairwise distinct createdAt,
\* getQuestionsByCourseId lists all of them ascending under oldest, descending
\* under newest and under an unknown sort value, the resolved ones under
\* answered and the unresolved ones under unanswered, both descending; the
\* last two are disjoint and their sizes sum to the total; no question of
\* another course is listed. So is the reply of GET /api/questions/:courseId
C15_SortCorrectness ==
  /\ \A c \in Courses :
       DistinctCreatedAt(c) =>
         /\ \A sortOption \in {<<"newest">>, <<"oldest">>, <<"answered">>,
                               <<"unanswered">>, <<"x">>} :
              LET res == getQuestionsByCourseId(questions, c, sortOption) IN
                /\ res.err = ""
                /\ res.questions # {}
                /\ \A result \in res.questions : Listed(result, c, sortOption)
         /\ \A answered \in getQuestionsByCourseId(questions, c, <<"answered">>).questions,
               unanswered \in getQuestionsByCourseId(questions, c, <<"unanswered">>).questions :
              /\ {answered[i]._id : i \in DOMAIN answered}
                   \cap {unanswered[i]._id : i \in DOMAIN unanswered} = {}
              /\ Len(answered) + Len(unanswered) = Cardinality(OfCourse(c))
  /\ last.op = "ListQuestions" /\ last.status = 200 /\ DistinctCreatedAt(last.id) =>
       \E sortOption \in {<<"newest">>, <<"oldest">>, <<"answered">>, <<"unanswered">>} :
         Listed(last.body, last.id, sortOption)

\* a course with a resolved and an unresolved question was listed oldest
\* first while the other course has a question too
C15_Witness ==
  /\ last.op = "ListQuestions"
  /\ last.status = 200
  /\ DistinctCreatedAt(last.id)
  /\ Len(last.body) = 2
  /\ last.body[1].createdAt < last.body[2].createdAt
  /\ last.body[1].isResolved # last.body[2].isResolved
  /\ \E q \in DOMAIN questions : questions[q].courseId # last.id

\* the questions of a course asked within the trailing window
Recent(c) ==
  {q \in OfCourse(c) : questions[q].createdAt >= now - RecentWindow}

\* C16: getNewQuestionCountsByCourseIds reports for each listed course the
\* number of its questions with createdAt >= now - 24h, a course with none
\* is absent from the map, and GET /api/courses reports 0 for it
C16_RecentCounts ==
  /\ \A courseIds \in {<<>>, <<1>>, <<2>>, <<1, 2>>, <<2, 1>>, <<1, 1>>} :
       LET res == getNewQuestionCountsByCourseIds(questions, courseIds, now) IN
         /\ res.err = ""
         /\ DOMAIN res.counts = {c \in {courseIds[i] : i \in DOMAIN courseIds} : Recent(c) # {}}
         /\ \A c \in DOMAIN res.counts : res.counts[c] = Cardinality(Recent(c))
  /\ last.op = "ListCourses" =>
       /\ last.status = 200
       /\ {last.body[i]._id : i \in DOMAIN last.body}
            = {c \in Courses : last.actor \in EnrolledStudents[c]}
       /\ \A i \in DOMAIN last.body :
            last.body[i].newQuestionCount = Cardinality(Recent(last.body[i]._id))

\* the courses were listed with a course counting the question asked exactly
\* 24 hours ago but not an older one, and a course counting 0
C16_Witness ==
  /\ last.op = "ListCourses"
  /\ \E i, j \in DOMAIN last.body :
       /\ last.body[i].newQuestionCount = 1
       /\ last.body[j].newQuestionCount = 0
       /\ \E q \in Recent(last.body[i]._id) : questions[q].createdAt = now - RecentWindow
       /\ OfCourse(last.body[i]._id) \ Recent(last.body[i]._id) # {}
       /\ OfCourse(last.body[j]._id) # {}

\* C17: no two stored students have the same lowercased universityEmail,
\* also when calls of createStudent for one email interleave between the
\* existence check and the insert
C17_EmailUnique ==
  \A i, j \in DOMAIN students :
    i # j => toLowerCase(students[i].universityEmail)
               # toLowerCase(students[j].universityEmail)

\* the part of C17 about one call at a time: createStudent with an email
\* that is stored, in any letter case, fails and adds no student
C17_DuplicateRejected ==
  \A data \in StudentInputs :
    LET valid == StudentValidation(data)
        res == createStudent(students, data)
    IN  /\ valid.err = ""
        /\ \E i \in DOMAIN students :
             students[i].universityEmail = toLowerCase(valid.universityEmail)
        => res.err # "" /\ res.students = students

InvalidIdErrors ==
  {"Invalid question ID", "Invalid course ID", "Invalid poster ID", "Invalid response ID",
   "Invalid notification ID", "Invalid student ID", "Invalid recipient ID",
   "Invalid sender ID"}

DataOperations ==
  {"createQuestion", "getQuestionById", "getQuestionsByCourseId",
   "getNewQuestionCountsByCourseIds", "updateQuestion", "deleteQuestion",
   "createResponse", "getResponseById", "getResponsesByQuestionId", "updateResponse",
   "deleteResponse", "deleteResponsesByQuestionId", "createNotification",
   "getNotificationById", "getNotificationsByStudentId", "markNotificationAsRead",
   "markAllNotificationsAsRead", "getUnreadNotificationCount", "deleteNotification",
   "deleteNotificationsByQuestionId"}

C19_Unauthenticated401 ==
  [][served' # served /\ last'.actor = NoSession =>
       /\ last'.status = 401
       /\ last'.error = "Authentication required. Please log in."
       /\ last'.body = <<>>
       /\ store' = store
       /\ ids' = ids]_vars

\* the delete of an existing question that has a response and a
\* notification was asked without a session
C19_Witness ==
  /\ last.op = "DeleteQuestion"
  /\ last.actor = NoSession
  /\ last.status = 401
  /\ last.id \in DOMAIN questions
  /\ \E r \in DOMAIN responses : responses[r].questionId = last.id
  /\ \E n \in DOMAIN notifications : notifications[n].questionId = last.id

\* the notifications addressed to a student
NotificationsFor(student) ==
  {n \in DOMAIN notifications : notifications[n].recipientId = student}

\* C20: A asks Q1 (unresolved); B, another student, answers with R1 and
\* there is exactly one notification for A; A marks R1 helpful: R1 is
\* helpful and there is exactly one notification for B; A resolves Q1; A
\* deletes Q1: R1, both notifications and Q1 are gone
C20_Scenario ==
  /\ served = 1 =>
       /\ last.status = 201
       /\ DOMAIN questions = {1}
       /\ ~questions[1].isResolved
  /\ served = 2 =>
       /\ last.status = 201
       /\ DOMAIN responses = {1}
       /\ responses[1].questionId = 1
       /\ responses[1].posterId # questions[1].posterId
       /\ Cardinality(NotificationsFor(questions[1].posterId)) = 1
       /\ Cardinality(DOMAIN notifications) = 1
  /\ served = 3 =>
       /\ last.status = 200
       /\ responses[1].isHelpful
       /\ Cardinality(NotificationsFor(responses[1].posterId)) = 1
       /\ Cardinality(NotificationsFor(questions[1].posterId)) = 1
  /\ served = 4 =>
       /\ last.status = 200
       /\ questions[1].isResolved
       /\ responses[1].isHelpful
       /\ Cardinality(DOMAIN notifications) = 2
  /\ served = 5 =>
       /\ last.status = 200
       /\ DOMAIN questions = {}
       /\ DOMAIN responses = {}
       /\ DOMAIN notifications = {}

\* the asker's delete ended the scenario
C20_Witness ==
  /\ served = 5
  /\ last.op = "DeleteQuestion"
  /\ last.status = 200
  /\ ids = [q |-> 2, r |-> 2, n |-> 3]

\* C21: after a login and a logout the old cookie names no session: a logout
\* answered 200 leaves no session under its cookie, a session id that left the
\* store never returns to it whatever login follows, and a request that
\* carries such a cookie is told loggedIn=false by the session check and is
\* answered 401 by every route behind requireAuth
C21_LoggedOutCookieRejected ==
  [][/\ (served' # served /\ last'.op = "Logout" /\ last'.status = 200)
          => last'.id \notin DOMAIN sessions'.store
     /\ \A c \in 1..sessions.issued :
          c \notin DOMAIN sessions.store =>
            /\ c \notin DOMAIN sessions'.store
            /\ (served' # served /\ last'.op = "CheckSession" /\ last'.id = c)
                 => last'.body = <<[loggedIn |-> FALSE]>>
            /\ (served' # served /\ last'.op = "Logout" /\ last'.id = c)
                 => last'.status = 401
            /\ (last'.op \notin {"Login", "Logout", "CheckSession"} /\ Protected(c))
                 => last'.status = 401]_vars

\* a session check with the cookie of a session that was logged out, made
\* after the same student logged in again
C21_Witness ==
  /\ last.op = "CheckSession"
  /\ last.id \in 1..sessions.issued
  /\ last.id \notin DOMAIN sessions.store
  /\ last.body = <<[loggedIn |-> FALSE]>>
  /\ \E c \in DOMAIN sessions.store : c > last.id

\* C22 as stated: a helpful request stores a helpful_mark notification only
\* when it moves the response from isHelpful=false to isHelpful=true.
C22_NotifiedOnlyOnTransition ==
  [][(/\ Request
      /\ last'.op = "MarkHelpful"
      /\ \E n \in DOMAIN notifications' \ DOMAIN notifications :
           notifications'[n].type = <<"helpful_mark">>)
       => /\ last'.id \in DOMAIN responses
          /\ ~responses[last'.id].isHelpful
          /\ responses'[last'.id].isHelpful]_vars

\* C23: a question is created with isResolved=false; a PATCH of its poster
\* with a boolean isResolved is answered 200 and stores that value, from Open
\* to Resolved and back, as long as the question exists; and isResolved of a
\* stored question changes only in a step that is an update answered 200 to
\* the question's poster
C23_ResolutionLifecycle ==
  [][/\ \A q \in DOMAIN questions' \ DOMAIN questions : ~questions'[q].isResolved
     /\ \A q \in DOMAIN questions, b \in BOOLEAN :
          ServeResolve(PatchQuestion(questions[q].posterId, q, <<KV("isResolved", Bool(b))>>))
            => /\ last'.status = 200
               /\ q \in DOMAIN questions'
               /\ questions'[q].isResolved = b
     /\ \A q \in DOMAIN questions \cap DOMAIN questions' :
          questions'[q].isResolved # questions[q].isResolved
            => /\ last'.op = "PatchQuestion"
               /\ last'.id = q
               /\ last'.status = 200
               /\ last'.actor = questions[q].posterId]_vars

\* a question that was resolved is reopened by its poster
C23_Witness ==
  /\ served = 2
  /\ last.op = "PatchQuestion"
  /\ last.status = 200
  /\ last.id \in DOMAIN questions
  /\ ~questions[last.id].isResolved
  /\ questions[last.id].posterId = last.actor
  /\ questions[last.id].title = <<"t", "2">>

\* the responses and the notifications of question Q in a collection
ResponsesOf(rs, Q) == {r \in DOMAIN rs : rs[r].questionId = Q}

NotificationsOf(ns, Q) == {n \in DOMAIN ns : ns[n].questionId = Q}

\* C24: the question delete removes the responses, then the notifications,
\* then the question; whenever an attempt is under way or has failed the
\* question is still stored, the delete sent again by the poster after a
\* failure is accepted and its last step cannot miss the question, and the
\* attempt answered 200 leaves no response, no notification and no question
\* of that id
C24_RetrySafe ==
  [][/\ cascade'.pc \in {"notifications", "question"} => ResponsesOf(responses', cascade'.id) = {}
     /\ cascade'.pc = "question" => NotificationsOf(notifications', cascade'.id) = {}
     /\ cascade'.pc \in {"responses", "notifications", "question", "failed"}
          => cascade'.id \in DOMAIN questions'
     /\ cascade'.pc = "question" => deleteQuestion(questions', cascade'.id).err = ""
     /\ (cascade.pc = "failed" /\ CascadeStart(cascade.actor, cascade.id))
          => cascade'.pc = "responses"
     /\ cascade'.pc = "done"
          => /\ cascade'.id \notin DOMAIN questions'
             /\ ResponsesOf(responses', cascade'.id) = {}
             /\ NotificationsOf(notifications', cascade'.id) = {}]_vars

\* the delete was answered 200 at its second attempt, which removed documents:
\* the first attempt failed and a request was served before the second
C24_Witness ==
  /\ cascade.pc = "done"
  /\ cascade.failures > 0
  /\ cascade.removed > 0
  /\ served > 0
  /\ last.op = "DeleteQuestion"
  /\ last.status = 200

\* the updates in flight that were answered 200
Applied(op) ==
  {i \in DOMAIN pending : pending[i].op = op /\ pending[i].pc = "done" /\ pending[i].status = 200}

\* the document after an update with the body: the supplied fields hold the
\* supplied values, updatedAt the time of the write, the others what they held
Updated(doc, body, t) ==
  [f \in DOMAIN doc |->
     IF f = "updatedAt" THEN t
     ELSE IF f \in Keys(body) THEN Raw(Get(body, f))
     ELSE doc[f]]

\* the fields of a stored document are those of the last applied update that
\* supplied them
LastWriteWins(op, coll) ==
  \A i \in Applied(op) : \A f \in Keys(pending[i].body) :
    LET writers == {j \in Applied(op) :
                      pending[j].id = pending[i].id /\ f \in Keys(pending[j].body)}
        latest == CHOOSE j \in writers : \A k \in writers : pending[k].order <= pending[j].order
    IN pending[i].id \in DOMAIN coll
         => coll[pending[i].id][f] = Raw(Get(pending[latest].body, f))

\* C25: the write of an update in flight sets exactly the fields its body
\* supplies, and updatedAt, in one step, whatever ran since its ownership
\* check, and an update answered with an error writes nothing; so once the
\* updates of a question or of a response have replied, a field supplied by
\* one of them holds its value, and a field supplied by several holds the
\* value of the one that wrote last
C25_LastWriteWins ==
  [][/\ \A i \in DOMAIN pending :
          (pending[i].pc = "write" /\ pending'[i].pc = "done") =>
            LET rq == pending[i] IN
              /\ rq.op = "PatchQuestion" =>
                   questions' = IF pending'[i].status = 200
                                  THEN [questions EXCEPT ![rq.id] = Updated(@, rq.body, now)]
                                  ELSE questions
              /\ rq.op = "PatchResponse" =>
                   responses' = IF pending'[i].status = 200
                                  THEN [responses EXCEPT ![rq.id] = Updated(@, rq.body, now)]
                                  ELSE responses
     /\ (\A i \in DOMAIN pending' : pending'[i].op \in {"PatchQuestion", "PatchResponse"})
          => /\ LastWriteWins("PatchQuestion", questions)'
             /\ LastWriteWins("PatchResponse", responses)']_vars

\* two updates of one question were in flight together: the one that checked
\* first wrote last, so its title is stored, with the isResolved of the other
C25_Witness ==
  /\ Len(pending) = 2
  /\ pending[1].op = "PatchQuestion" /\ pending[2].op = "PatchQuestion"
  /\ pending[1].id = pending[2].id
  /\ pending[1].status = 200 /\ pending[2].status = 200
  /\ pending[1].order > pending[2].order
  /\ Keys(pending[1].body) = {"title"}
  /\ Keys(pending[2].body) = {"title", "isResolved"}
  /\ questions[pending[1].id].title = <<"t", "2">>
  /\ questions[pending[1].id].isResolved

\* C26: whatever ran between the ownership check of a request in flight and
\* its writes, a step of the request changes or deletes a stored question,
\* changes the content of a stored response, or deletes a response through
\* DELETE /api/responses/:responseId, only if its acting student is the
\* poster of that document in the state the write is applied to
C26_OwnershipAtWrite ==
  [][\A i \in DOMAIN pending :
       pending'[i] # pending[i] =>
         LET rq == pending[i] IN
           /\ \A q \in DOMAIN questions :
                (q \notin DOMAIN questions' \/ questions'[q] # questions[q])
                  => questions[q].posterId = rq.actor
           /\ \A r \in DOMAIN responses :
                (r \in DOMAIN responses' /\ responses'[r].content # responses[r].content)
                  => responses[r].posterId = rq.actor
           /\ \A r \in DOMAIN responses :
                (r \notin DOMAIN responses' /\ rq.op = "DeleteResponse")
                  => responses[r].posterId = rq.actor]_vars

\* a request passed its ownership check, the document was deleted by another
\* request of its poster before the write, and the write found nothing
C26_Witness ==
  /\ Len(pending) = 2
  /\ \A i \in DOMAIN pending : pending[i].pc = "done"
  /\ \E i, j \in DOMAIN pending :
       /\ pending[i].status = 200 /\ pending[i].op \in {"DeleteQuestion", "DeleteResponse"}
       /\ pending[j].status = 500 /\ pending[j].id = pending[i].id
       /\ pending[j].order > pending[i].order
  /\ last.error \in NotFoundErrors

\* C27 as stated: once the question delete and the requests served while it
\* was at an await have all replied, no stored response and no stored
\* notification references the deleted question.
C27_NoOrphanAfterCascade ==
  cascade.pc = "done" =>
    /\ ResponsesOf(responses, cascade.id) = {}
    /\ NotificationsOf(notifications, cascade.id) = {}

\* C28 as stated: when every request runs to completion before the next, every
\* stored response has the questionId of a stored question.
C28_ResponsesReferenceQuestions ==
  \A r \in DOMAIN responses : responses[r].questionId \in DOMAIN questions

\* C29 as stated: isRead of a stored notification goes from false to true only
\* in a step that is a request of the notification's recipient.
C29_ReadOnlyByRecipient ==
  [][\A n \in DOMAIN notifications \cap DOMAIN notifications' :
       (~notifications[n].isRead /\ notifications'[n].isRead)
         => /\ last'.op \in {"MarkRead", "MarkAllRead"}
            /\ last'.actor = notifications[n].recipientId]_vars

\* C30 as stated: a PATCH /api/responses/:responseId that is accepted changes
\* at most content and updatedAt of the response: isHelpful and every other
\* field are as before, and no notification is created.
C30_ContentEditFrame ==
  [][(Request /\ last'.op = "PatchResponse" /\ last'.status = 200) =>
       /\ last'.id \in DOMAIN responses \cap DOMAIN responses'
       /\ \A f \in DOMAIN responses[last'.id] \ {"content", "updatedAt"} :
            responses'[last'.id][f] = responses[last'.id][f]
       /\ notifications' = notifications]_vars

=============================================================================
